---- MODULE Spec2Model ----
(***************************************************************************)
(* State-machine model of the Telegram ads-forwarding bot.                 *)
(*                                                                         *)
(*   database.py          Database (relational store, one lock per call)   *)
(*   advanced_features.py AsyncDatabase.get_connection, AdRotationManager  *)
(*   advanced_handlers.py AdvancedCommandHandlers.ad_management_command    *)
(*   admin_handlers.py    AdminHandler (owner-only commands)               *)
(*   bot.py               force-join entry point                           *)
(*   main.py              orchestrator (/logout)                           *)
(*                                                                         *)
(* The relational store is modelled table by table.  A nullable column is  *)
(* a set: {} is NULL and {v} is the value v.  Text is a sequence of        *)
(* one-character strings.  Account ids are only ever compared for         *)
(* equality, so they are modelled as names.                                *)
(***************************************************************************)
EXTENDS Integers, Sequences, FiniteSets, TLC

VARIABLES
    ads,                        \* table ads: set of rows
    ad_seq,                     \* AUTOINCREMENT counter of table ads
    last_saved,                 \* history: id inserted by each user's latest save_ad
    payments,                   \* table payments: sequence, row id = index
    users,                      \* table users: function user_id -> row
    owner_ads,                  \* table owner_ads: sequence, row id = index
    owner_state,                \* AdminHandler.owner_state
    flood_protection,           \* AdminHandler.flood_protection: attempts inside the window
    now,                        \* the clock, in days
    force_join_pending_users,   \* bot.py global set
    timers,                     \* bot.py: outstanding auto_remove_pending_user tasks per user
    membership,                 \* platform side: each account's status in the channel
    login_states,               \* user_manager.login_states
    active_sessions,            \* user_manager.active_sessions
    running,                    \* user_manager: users whose forwarding loop runs
    ad_setup_state,             \* ad_handler.ad_setup_state
    upgrade_state,              \* upgrade_handler.upgrade_state
    scheduled_campaigns,        \* table scheduled_campaigns: sequence, row id = index
    scheduler_running,          \* ScheduledCampaignManager._running
    scheduler_pending,          \* start_scheduler calls made whose body has not run yet
    scheduler_calls,            \* history: start_scheduler calls made so far
    worker_tasks,               \* _campaign_worker tasks created; none ever returns
    worker_sleep,               \* seconds the campaign worker sleeps after its last pass
    forward_triggers,           \* history: times the worker reached the forwarding step, per campaign id
    broadcast_calls,            \* owner-ad ids passed to user_manager.broadcast_owner_ad
    broadcast_confirmed,        \* history: owner-ad ids whose confirmation button was pressed
    lock,                       \* Database.lock: the threads that hold it
    pc,                         \* where each worker thread stands inside Database.save_ad
    txn,                        \* each thread's connection: its uncommitted table ads, if any
    entry_ads,                  \* history: table ads when the thread took the lock
    rotation_rows,              \* success_count of each row get_user_ads returned, in order
    referrals,                  \* table referrals: set of rows
    forwarding_logs,            \* table forwarding_logs: sequence, row id = index
    logs_schema,                \* which CREATE TABLE made forwarding_logs, if any
    user_groups,                \* table user_groups: set of rows
    group_seq,                  \* AUTOINCREMENT counter of table user_groups
    rate_log,                   \* AntiFlood: the attempt times it keeps per user id
    rate_history,               \* history: the time of every check ever made, per user id
    rate_now,                   \* the limiter's clock, in seconds
    analytics_cache,            \* AnalyticsManager._cache: its entries
    analytics_calls,            \* history: get_user_analytics calls made so far
    ana_now,                    \* the analytics clock, in minutes
    cooldowns,                  \* AdvancedCommandHandlers.cooldowns, a missing entry read as 0
    cool_processed,             \* history: when each (user, command) was last processed
    cool_calls,                 \* history: advanced commands received so far
    cool_now,                   \* datetime.now().timestamp(), in seconds
    paused_groups,              \* table paused_groups: set of (user_id, group_id) markers
    group_priority,             \* table group_priority: priority of a (user_id, group_id), if any
    stat_counts,                \* input: the arguments success_rate is called with
    lookup_answers,             \* input: what get_chat_member does at each successive call
    dialogs,                    \* input: the account's dialog list, chat id = index
    last                        \* the last handler run: its inputs and its outcome

vars == <<ads, ad_seq, last_saved, payments, users, owner_ads, owner_state,
          flood_protection, now, force_join_pending_users, timers, membership,
          login_states,
          active_sessions, running, ad_setup_state, upgrade_state,
          scheduled_campaigns, scheduler_running, scheduler_pending,
          scheduler_calls, worker_tasks, worker_sleep, forward_triggers,
          broadcast_calls, broadcast_confirmed, lock, pc, txn, entry_ads,
          rotation_rows, referrals, forwarding_logs, logs_schema,
          user_groups, group_seq, rate_log, rate_history, rate_now,
          analytics_cache, analytics_calls, ana_now,
          cooldowns, cool_processed, cool_calls, cool_now,
          paused_groups, group_priority,
          stat_counts, lookup_answers, dialogs, last>>

adVars    == <<ads, ad_seq, last_saved>>
adminVars == <<payments, owner_ads, owner_state, flood_protection, now>>
joinVars  == <<force_join_pending_users, timers, membership, login_states>>
sessVars  == <<active_sessions, running>>
flowVars  == <<ad_setup_state, upgrade_state>>
campVars  == <<scheduled_campaigns, scheduler_running, scheduler_pending,
               scheduler_calls, worker_tasks, worker_sleep, forward_triggers>>
bcastVars == <<broadcast_calls, broadcast_confirmed>>
thrVars   == <<lock, pc, txn, entry_ads>>
rotVars   == <<rotation_rows>>
refVars   == <<referrals>>
logVars   == <<forwarding_logs, logs_schema>>
grpVars   == <<user_groups, group_seq>>
rateVars  == <<rate_log, rate_history, rate_now>>
\* inputs of the pure functions: no action changes them
inVars    == <<stat_counts, lookup_answers, dialogs>>
anaVars   == <<analytics_cache, analytics_calls, ana_now>>
coolVars  == <<cooldowns, cool_processed, cool_calls, cool_now>>
pauseVars == <<paused_groups, group_priority>>
auxVars   == <<refVars, logVars, grpVars, rateVars, anaVars, coolVars, pauseVars, inVars>>
auxButRef == <<logVars, grpVars, rateVars, anaVars, coolVars, pauseVars, inVars>>
auxButLog == <<refVars, grpVars, rateVars, anaVars, coolVars, pauseVars, inVars>>
auxButGrp == <<refVars, logVars, rateVars, anaVars, coolVars, pauseVars, inVars>>
auxButRate == <<refVars, logVars, grpVars, anaVars, coolVars, pauseVars, inVars>>
auxButAna == <<refVars, logVars, grpVars, rateVars, coolVars, pauseVars, inVars>>
auxButLogAna == <<refVars, grpVars, rateVars, coolVars, pauseVars, inVars>>
auxButCool == <<refVars, logVars, grpVars, rateVars, anaVars, pauseVars, inVars>>
auxButPause == <<refVars, logVars, grpVars, rateVars, anaVars, coolVars, inVars>>
restVars  == <<campVars, bcastVars, thrVars, rotVars, auxVars>>
\* everything but users, last and one group of the later components
baseVars  == <<adminVars, adVars, joinVars, sessVars, flowVars, campVars, bcastVars,
               thrVars, rotVars>>
otherVars == <<flowVars, restVars>>

----------------------------------------------------------------------------
(* Bounds of the model *)

MaxAds == 3

MaxPayments == 1

MaxOwnerAds == 1

MaxTime == 1

MaxFloodLog == 6

MaxTimers == 1

----------------------------------------------------------------------------
(* Accounts *)

OWNER_ID == "owner"

\* the bot's own account: from_user of every message the bot itself sent
BOT_ID == "bot"

UserIds == {"owner", "alice", "bob"}

\* the account that talks to the force-join entry point
GateUsers == {"alice"}

None == {}

Some(v) == {v}

----------------------------------------------------------------------------
(* Table users *)

NewUserRow ==
    [session_string       |-> FALSE,
     is_premium           |-> FALSE,
     subscription_expires |-> None,
     premium_expires      |-> None,
     delay_seconds        |-> 300,
     is_active            |-> FALSE]

\* INSERT OR IGNORE INTO users (user_id, username)
add_user(tbl, u) ==
    IF u \in DOMAIN tbl THEN tbl
    ELSE [x \in DOMAIN tbl \cup {u} |-> IF x = u THEN NewUserRow ELSE tbl[x]]

----------------------------------------------------------------------------
(* Table ads *)

AdTexts == {"A", "B"}

\* UPDATE ads SET is_active = 0 WHERE user_id = ?   (no deactivation at all)
DeactivateNothing(tbl, u) == tbl

\* UPDATE ads SET is_active = 0 WHERE user_id = ?
DeactivateUserAds(tbl, u) ==
    {IF a.user_id = u THEN [a EXCEPT !.is_active = FALSE] ELSE a : a \in tbl}

\* INSERT INTO ads (user_id, ad_text, ...): is_active DEFAULT 1
InsertAd(tbl, id, u, txt) ==
    tbl \cup {[id |-> id, user_id |-> u, ad_text |-> txt, is_active |-> TRUE]}

\* Database.save_ad: both statements under one lock and one commit
save_ad(u, txt) ==
    /\ ad_seq < MaxAds
    /\ ads' = InsertAd(DeactivateUserAds(ads, u), ad_seq + 1, u, txt)
    /\ ad_seq' = ad_seq + 1
    /\ last_saved' = [last_saved EXCEPT ![u] = ad_seq + 1]
    /\ last' = [op |-> "save_ad", caller |-> u, reply |-> "ok"]
    /\ UNCHANGED <<users, adminVars, joinVars, sessVars, otherVars>>

ActiveAds(u) == {a \in ads : a.user_id = u /\ a.is_active}

SaveAd == \E u \in UserIds, txt \in AdTexts : save_ad(u, txt)

\* A numeric command argument as typed: absent, not a number, or a number
IdArgs(max) ==
    {[kind |-> "none", n |-> 0], [kind |-> "junk", n |-> 0]}
        \cup {[kind |-> "int", n |-> k] : k \in 0..max}

\* utils.safe_int: parse or default, never raises
safe_int(a) == IF a.kind = "int" THEN a.n ELSE 0

\* UPDATE ads SET is_active = ? WHERE id = ? AND user_id = ?
SetAdActive(tbl, id, u, flag) ==
    {IF a.id = id /\ a.user_id = u THEN [a EXCEPT !.is_active = flag] ELSE a
        : a \in tbl}

\* AdRotationManager.toggle_ad_status
toggle_ad_status(id, u, flag) ==
    /\ ads' = SetAdActive(ads, id, u, flag)
    /\ last' = [op |-> "toggle_ad_status", caller |-> u, reply |-> "ok"]
    /\ UNCHANGED <<ad_seq, last_saved, users, adminVars, joinVars, sessVars, otherVars>>

ToggleAdStatus ==
    \E id \in 1..MaxAds, u \in UserIds, flag \in BOOLEAN :
        toggle_ad_status(id, u, flag)

\* AdvancedCommandHandlers.ad_management_command (/togglead, /deletead).
\* The ownership query selects only the id column and the handler then reads
\* ad['is_active'] from that row: with a row type that lacks the column the
\* read raises and the handler reports a database error, with one that
\* carries it the flag is flipped.  row_has_flag chooses between the two.
ad_management_command(u, cmd, arg, row_has_flag) ==
    LET ad_id == safe_int(arg)
        own   == {a \in ads : a.id = ad_id /\ a.user_id = u}
        reply == IF arg.kind = "none" THEN "usage"
                 ELSE IF ad_id = 0 THEN "invalid_id"
                 ELSE IF own = {} THEN "not_found"
                 ELSE IF cmd = "deletead" THEN "deleted"
                 ELSE IF row_has_flag THEN "toggled"
                 ELSE "database_error"
    IN  /\ ads' = IF reply = "deleted" THEN ads \ own
                  ELSE IF reply = "toggled"
                       THEN {IF a \in own
                             THEN [a EXCEPT !.is_active = ~a.is_active]
                             ELSE a : a \in ads}
                       ELSE ads
        /\ last' = [op |-> cmd, caller |-> u, reply |-> reply]
        /\ UNCHANGED <<ad_seq, last_saved, users, adminVars, joinVars, sessVars, otherVars>>

AdManagementCommand ==
    \E u \in UserIds, cmd \in {"togglead", "deletead"},
       arg \in IdArgs(MaxAds), row_has_flag \in BOOLEAN :
        ad_management_command(u, cmd, arg, row_has_flag)

----------------------------------------------------------------------------
(* Text: message.text.split(), " ".join(...), utils.sanitize_input *)

RECURSIVE SplitFrom(_, _, _)
SplitFrom(s, cur, acc) ==
    IF s = <<>> THEN (IF cur = <<>> THEN acc ELSE Append(acc, cur))
    ELSE IF Head(s) = " "
         THEN SplitFrom(Tail(s), <<>>, IF cur = <<>> THEN acc ELSE Append(acc, cur))
         ELSE SplitFrom(Tail(s), Append(cur, Head(s)), acc)

\* str.split(): the words between runs of whitespace
split(s) == SplitFrom(s, <<>>, <<>>)

RECURSIVE join(_)
\* " ".join(words)
join(ws) ==
    IF ws = <<>> THEN <<>>
    ELSE IF Len(ws) = 1 THEN ws[1]
    ELSE ws[1] \o <<" ">> \o join(Tail(ws))

RECURSIVE Trim(_)
Trim(s) ==
    IF s = <<>> THEN s
    ELSE IF Head(s) = " " THEN Trim(Tail(s))
    ELSE IF s[Len(s)] = " " THEN Trim(SubSeq(s, 1, Len(s) - 1))
    ELSE s

\* utils.sanitize_input: trims, then strips angle brackets (the length cap of
\* 4000 characters is beyond every text of the model)
sanitize_input(s) == SelectSeq(Trim(s), LAMBDA c : c \notin {"<", ">"})

VERIFICATION_FAILED ==
    <<"V","e","r","i","f","i","c","a","t","i","o","n"," ","f","a","i","l","e","d">>

\* what the owner may type after "/reject <id>"
RejectTexts ==
    { <<>>,
      <<" ">>,
      <<"a">>,
      <<"<", "a", ">">>,
      <<"a", " ", " ", "b">> }

----------------------------------------------------------------------------
(* Table payments, config.PRICING *)

PRICING ==
    [basic     |-> [price |-> 199, duration_days |-> 30],
     pro       |-> [price |-> 399, duration_days |-> 30],
     unlimited |-> [price |-> 599, duration_days |-> 30]]

\* plan types a payment row may carry: one of the table, one unknown to it
PlanTypes == {"basic", "lifetime"}

Payers == {"alice", "bob"}

\* AdminHandler._get_plan_duration
get_plan_duration(plan_type) ==
    IF plan_type \in DOMAIN PRICING THEN PRICING[plan_type].duration_days ELSE 30

\* Database.create_payment_request: status DEFAULT 'pending', approved_at NULL
create_payment_request(u, plan) ==
    /\ Len(payments) < MaxPayments
    /\ payments' = Append(payments,
                          [user_id |-> u, plan_type |-> plan, status |-> "pending",
                           approved_at |-> None, rejected_reason |-> None])
    /\ last' = [op |-> "create_payment", caller |-> u, reply |-> "ok",
                pid |-> Len(payments) + 1]
    /\ UNCHANGED <<users, owner_ads, owner_state, flood_protection, now,
                   adVars, joinVars, sessVars, otherVars>>

CreatePaymentRequest ==
    \E u \in Payers, plan \in PlanTypes : create_payment_request(u, plan)

\* Database.approve_payment: no status test, no premium grant
approve_payment(pid) ==
    /\ payments' = IF pid \in DOMAIN payments
                   THEN [payments EXCEPT ![pid].status = "approved",
                                         ![pid].approved_at = Some(now)]
                   ELSE payments
    /\ last' = [op |-> "approve_payment", caller |-> BOT_ID, reply |-> "ok",
                pid |-> pid]
    /\ UNCHANGED <<users, owner_ads, owner_state, flood_protection, now,
                   adVars, joinVars, sessVars, otherVars>>

ApprovePayment == \E pid \in 1..MaxPayments : approve_payment(pid)

\* main.py start_command: db.add_user(user_id, username), then the welcome text
main_start_command(u) ==
    /\ users' = add_user(users, u)
    /\ last' = [op |-> "main_start", caller |-> u, reply |-> "welcome"]
    /\ UNCHANGED <<adminVars, adVars, joinVars, sessVars, otherVars>>

MainStartCommand == \E u \in Payers : main_start_command(u)

\* the clock advances
Tick ==
    /\ now < MaxTime
    /\ now' = now + 1
    /\ UNCHANGED <<payments, users, owner_ads, owner_state, flood_protection,
                   adVars, joinVars, sessVars, otherVars, last>>

----------------------------------------------------------------------------
(* AdminHandler *)

\* no check at all
\* who sends the owner's commands: the owner, and a user who is not the owner
AdminCallers == {OWNER_ID, "alice"}

OwnerCheckMissing(caller) == TRUE

\* AdminHandler._owner_check
owner_check(caller) == caller = OWNER_ID

\* UPDATE payments SET status = 'approved' WHERE id = ?
MarkApproved(tbl, pid) == [tbl EXCEPT ![pid].status = "approved"]

\* UPDATE users SET is_premium = 1, premium_expires = date('now', '+N days')
\* WHERE user_id = ?
GrantPremium(tbl, u, days) ==
    IF u \in DOMAIN tbl
    THEN [tbl EXCEPT ![u].is_premium = TRUE, ![u].premium_expires = Some(now + days)]
    ELSE tbl

\* AdminHandler.approve_command with _process_approval.  fail names the
\* statement of _process_approval at which the store raises; the finally
\* clause of AsyncDatabase.get_connection commits whatever ran before it.
\* The notification that follows is best effort: its failure is logged and
\* changes neither the store nor the reply.
approve_command(caller, arg, fail) ==
    LET pid     == safe_int(arg)
        found   == pid \in DOMAIN payments
        pending == found /\ payments[pid].status = "pending"
        reply   == IF ~owner_check(caller) THEN "owner_only"
                   ELSE IF arg.kind = "none" THEN "usage"
                   ELSE IF pid = 0 THEN "invalid_id"
                   ELSE IF ~pending THEN "not_found_or_processed"
                   ELSE IF fail # "none" THEN "approval_failed"
                   ELSE "approved"
        marked  == reply = "approved"
                   \/ (reply = "approval_failed" /\ fail = "update_users")
    IN  /\ payments' = IF marked THEN MarkApproved(payments, pid) ELSE payments
        /\ users' = IF reply = "approved"
                    THEN GrantPremium(users, payments[pid].user_id,
                                      get_plan_duration(payments[pid].plan_type))
                    ELSE users
        /\ last' = [op |-> "approve", caller |-> caller, reply |-> reply,
                    pid |-> IF pending THEN pid ELSE 0, at |-> now]
        /\ UNCHANGED <<owner_ads, owner_state, flood_protection, now,
                       adVars, joinVars, sessVars, otherVars>>

ApproveCommand ==
    \E caller \in AdminCallers, arg \in IdArgs(MaxPayments),
       fail \in {"none", "update_payments", "update_users"} :
        approve_command(caller, arg, fail)

\* the default is never used
RejectReasonNoDefault(text) == sanitize_input(join(split(text)))

\* reject_command: sanitize_input(" ".join(args[2:])) if len(args) > 2
\*                 else "Verification failed"
RejectReason(text) ==
    IF Len(split(text)) > 0 THEN sanitize_input(join(split(text)))
    ELSE VERIFICATION_FAILED

\* UPDATE payments SET status = 'rejected', rejected_reason = ? WHERE id = ?
MarkRejected(tbl, pid, reason) ==
    [tbl EXCEPT ![pid].status = "rejected", ![pid].rejected_reason = Some(reason)]

\* AdminHandler.reject_command.  fail: "storage" is the lookup or the UPDATE
\* raising, "notify" is bot.send_message raising after the commit.
reject_command(caller, arg, text, fail) ==
    LET pid     == safe_int(arg)
        found   == pid \in DOMAIN payments
        reply   == IF ~owner_check(caller) THEN "owner_only"
                   ELSE IF arg.kind = "none" THEN "usage"
                   ELSE IF fail = "storage" THEN "rejection_failed"
                   ELSE IF ~found THEN "not_found"
                   ELSE IF fail = "notify" THEN "rejection_failed"
                   ELSE "rejected"
        applied == owner_check(caller) /\ arg.kind # "none" /\ fail # "storage" /\ found
    IN  /\ payments' = IF applied THEN MarkRejected(payments, pid, RejectReason(text))
                       ELSE payments
        /\ last' = [op |-> "reject", caller |-> caller, reply |-> reply,
                    pid |-> IF applied THEN pid ELSE 0, applied |-> applied,
                    text |-> IF applied THEN text ELSE <<>>]
        /\ UNCHANGED <<users, owner_ads, owner_state, flood_protection, now,
                       adVars, joinVars, sessVars, otherVars>>

\* the messages sent: the command alone, with an id, and with an id and words
RejectMessages ==
    {[arg |-> a, text |-> <<>>] : a \in IdArgs(MaxPayments)}
        \cup {[arg |-> [kind |-> "int", n |-> k], text |-> t] :
                  k \in 1..MaxPayments, t \in RejectTexts}

RejectCommand ==
    \E caller \in AdminCallers, m \in RejectMessages,
       fail \in {"none", "storage", "notify"} :
        reject_command(caller, m.arg, m.text, fail)

\* AdminHandler.flood_protection = AntiFlood(max_requests=5, window=1 minute)
FLOOD_MAX_REQUESTS == 5

\* AntiFlood.check: under the limit?  The attempt is recorded either way.
flood_check(u) == flood_protection[u] < FLOOD_MAX_REQUESTS

\* the oldest recorded attempt of u leaves the sliding window
FloodWindowSlides ==
    \E u \in UserIds :
        /\ flood_protection[u] > 0
        /\ flood_protection' = [flood_protection EXCEPT ![u] = @ - 1]
        /\ UNCHANGED <<payments, users, owner_ads, owner_state, now,
                       adVars, joinVars, sessVars, otherVars, last>>

\* AdminHandler.payments_command; read_ok: the SELECT of the pending rows works
payments_command(caller, read_ok) ==
    LET pending == {i \in DOMAIN payments : payments[i].status = "pending"}
        reply   == IF ~owner_check(caller) THEN "owner_only"
                   ELSE IF ~flood_check(caller) THEN "rate_limited"
                   ELSE IF ~read_ok THEN "error_loading"
                   ELSE IF pending = {} THEN "no_pending"
                   ELSE "pending_list"
    IN  /\ owner_check(caller) => flood_protection[caller] < MaxFloodLog
        /\ flood_protection' = IF owner_check(caller)
                               THEN [flood_protection EXCEPT ![caller] = @ + 1]
                               ELSE flood_protection
        /\ last' = [op |-> "payments", caller |-> caller, reply |-> reply]
        /\ UNCHANGED <<payments, users, owner_ads, owner_state, now,
                       adVars, joinVars, sessVars, otherVars>>

PaymentsCommand ==
    \E caller \in AdminCallers, read_ok \in BOOLEAN : payments_command(caller, read_ok)

\* AdminHandler.stats_command: the text it formats calls stats.total_revenue(),
\* which AdminStats does not have, so every owner run ends in the except clause
stats_command(caller) ==
    /\ last' = [op |-> "stats", caller |-> caller,
                reply |-> IF ~owner_check(caller) THEN "owner_only"
                          ELSE "stats_unavailable"]
    /\ UNCHANGED <<adminVars, users, adVars, joinVars, sessVars, otherVars>>

StatsCommand == \E caller \in AdminCallers : stats_command(caller)

\* AdminHandler.ownerads_command
ownerads_command(caller) ==
    /\ owner_state' = IF owner_check(caller) THEN owner_state \cup {OWNER_ID}
                      ELSE owner_state
    /\ last' = [op |-> "ownerads", caller |-> caller,
                reply |-> IF ~owner_check(caller) THEN "owner_only" ELSE "send_ad"]
    /\ UNCHANGED <<payments, users, owner_ads, flood_protection, now,
                   adVars, joinVars, sessVars, otherVars>>

OwneradsCommand == \E caller \in AdminCallers : ownerads_command(caller)

\* what a message may carry: text or caption, and a photo or a video
OwnerAdContents ==
    {[ad_text |-> t, media_type |-> m] : t \in {"", "T"}, m \in {"none", "photo"}}

\* AdminHandler.handle_owner_media with _save_owner_ad.  outcome: the INSERT
\* raises, or the INSERT is stored and the confirmation reply raises, or both work
handle_owner_media(caller, content, outcome) ==
    LET ignored == caller # OWNER_ID \/ OWNER_ID \notin owner_state
        empty   == content.ad_text = "" /\ content.media_type = "none"
        stored  == ~ignored /\ ~empty /\ outcome # "insert_raises"
        done    == stored /\ outcome = "ok"
    IN  /\ stored => Len(owner_ads) < MaxOwnerAds
        /\ owner_ads' = IF stored THEN Append(owner_ads, content) ELSE owner_ads
        /\ owner_state' = IF done THEN owner_state \ {OWNER_ID} ELSE owner_state
        /\ last' = [op |-> "owner_media", caller |-> caller,
                    reply |-> IF ignored THEN "none"
                              ELSE IF done THEN "saved" ELSE "failed_to_save"]
        /\ UNCHANGED <<payments, users, flood_protection, now,
                       adVars, joinVars, sessVars, otherVars>>

HandleOwnerMedia ==
    \E caller \in AdminCallers, content \in OwnerAdContents,
       outcome \in {"ok", "insert_raises", "reply_raises"} :
        handle_owner_media(caller, content, outcome)

\* AdminHandler.broadcast_command: a preview with a confirmation keyboard;
\* shown: building and sending the preview works
broadcast_command(caller, arg, shown) ==
    /\ last' = [op |-> "broadcast", caller |-> caller,
                reply |-> IF ~owner_check(caller) THEN "owner_only"
                          ELSE IF arg.kind = "none" THEN "usage"
                          ELSE IF safe_int(arg) \notin DOMAIN owner_ads THEN "ad_not_found"
                          ELSE IF shown THEN "preview"
                          ELSE "broadcast_failed"]
    /\ UNCHANGED <<adminVars, users, adVars, joinVars, sessVars, otherVars>>

BroadcastCommand ==
    \E caller \in AdminCallers, arg \in IdArgs(MaxOwnerAds), shown \in BOOLEAN :
        broadcast_command(caller, arg, shown)

\* main.py broadcast_command, registered for the owner only.  A numeric
\* argument goes straight to user_manager.broadcast_owner_ad; raised tells
\* whether that call raised after it was entered.
main_broadcast_command(caller, arg, raised) ==
    LET calls == arg.kind = "int"
    IN  /\ caller = OWNER_ID
        /\ broadcast_calls' = IF calls THEN broadcast_calls \cup {arg.n}
                              ELSE broadcast_calls
        /\ last' = [op |-> "main_broadcast", caller |-> caller,
                    reply |-> IF arg.kind = "none" THEN "usage"
                              ELSE IF arg.kind = "junk" \/ raised THEN "error"
                              ELSE "broadcast_completed"]
        /\ UNCHANGED <<adminVars, users, adVars, joinVars, sessVars, flowVars,
                       rotVars, auxVars, campVars, thrVars, broadcast_confirmed>>

MainBroadcastCommand ==
    \E arg \in IdArgs(MaxOwnerAds), raised \in BOOLEAN :
        main_broadcast_command(OWNER_ID, arg, raised)

AdminCallbackData ==
    {"admin_payment_1", "admin_payments_refresh", "broadcast_confirm_1_live", "other"}

\* AdminHandler._handle_callback.  The button of the broadcast preview sends
\* "broadcast_confirm_<id>_<mode>", which no branch handles: it is answered
\* like any other data.  "admin_payment_<id>" calls
\* self._show_payment_details, which the class does not define: the handler
\* raises before callback.answer().  "admin_payments_refresh" runs
\* payments_command on callback.message, a message of the bot itself, whose
\* sender fails _owner_check; the callback is then answered.
handle_callback(caller, data) ==
    /\ last' = [op |-> "admin_callback", caller |-> caller,
                reply |-> IF caller # OWNER_ID THEN "unauthorized"
                          ELSE IF data = "admin_payment_1" THEN "raised"
                          ELSE IF data = "admin_payments_refresh"
                               THEN (IF owner_check(BOT_ID) THEN "answered"
                                     ELSE "owner_only_then_answered")
                          ELSE "answered"]
    /\ broadcast_confirmed' =
            IF caller = OWNER_ID /\ data = "broadcast_confirm_1_live"
            THEN broadcast_confirmed \cup {1} ELSE broadcast_confirmed
    /\ UNCHANGED <<adminVars, users, adVars, joinVars, sessVars, flowVars, rotVars, auxVars, campVars,
                   thrVars, broadcast_calls>>

HandleCallback ==
    \E caller \in AdminCallers, data \in AdminCallbackData : handle_callback(caller, data)

----------------------------------------------------------------------------
(* bot.py: the force-join gate *)

\* the statuses is_user_member_of_channel accepts
VALID_STATUSES == {"member", "administrator", "creator"}

\* the errors of get_chat_member that the first except clause names
QuietErrors == {"UserNotParticipant", "PeerIdInvalid", "UsernameNotOccupied"}

\* every error get_chat_member raises in the model
LookupErrors == QuietErrors \cup {"ChatAdminRequired", "ChannelPrivate"}

\* what get_chat_member can answer for u, given where u stands in the channel
LookupOutcomes(u) ==
    (IF membership[u] = "joined" THEN VALID_STATUSES \cup {"restricted"}
     ELSE {"left", "UserNotParticipant"})
        \cup (LookupErrors \ {"UserNotParticipant"})

\* an error of the lookup counts as membership
FailOpenMembership(outcome) == outcome \in VALID_STATUSES \cup LookupErrors

\* is_user_member_of_channel: both except clauses return False
is_user_member_of_channel(outcome) ==
    IF outcome \in QuietErrors THEN FALSE
    ELSE IF outcome \in LookupErrors THEN FALSE
    ELSE outcome \in VALID_STATUSES

\* a passed check leaves the pending set alone
PendingNeverCleared(pend, u, is_member) ==
    IF is_member THEN pend ELSE pend \cup {u}

\* force_join_check: force_join_pending_users.add / .discard
PendingAfter(pend, u, is_member) ==
    IF is_member THEN pend \ {u} ELSE pend \cup {u}

\* what the lookup said, as the gate sees it
LookupClass(outcome) ==
    IF outcome \in LookupErrors THEN "error"
    ELSE IF outcome \in VALID_STATUSES THEN "member" ELSE "not_member"

\* force_join_check on the pending set pend and the scheduled tasks tmr.
\* sent: the join prompt goes out; when it raises, the except clause returns
\* False before create_task is reached.
force_join_check(pend, tmr, u, outcome, sent) ==
    LET is_member == is_user_member_of_channel(outcome)
    IN  [passed  |-> is_member,
         pending |-> PendingAfter(pend, u, is_member),
         timers  |-> IF ~is_member /\ sent THEN [tmr EXCEPT ![u] = @ + 1] ELSE tmr,
         check   |-> [user |-> u, reported |-> LookupClass(outcome),
                      passed |-> is_member, was_pending |-> u \in pend,
                      after_expiry |-> last.op = "timeout" /\ last.caller = u]]

\* the model stops scheduling tasks for an account at MaxTimers
TimersRoom(g) == \A u \in DOMAIN timers : g.timers[u] <= MaxTimers

\* bot.py start_command
start_command(u, outcome, sent) ==
    LET g == force_join_check(force_join_pending_users, timers, u, outcome, sent)
    IN  /\ TimersRoom(g)
        /\ users' = add_user(users, u)
        /\ force_join_pending_users' = g.pending
        /\ timers' = g.timers
        /\ last' = [op |-> "start", caller |-> u,
                    reply |-> IF g.passed THEN "welcome"
                              ELSE IF sent THEN "join_prompt" ELSE "none",
                    checks |-> <<g.check>>]
        /\ UNCHANGED <<membership, login_states, adminVars, adVars, sessVars, otherVars>>

StartCommand ==
    \E u \in GateUsers, sent \in BOOLEAN :
        \E outcome \in LookupOutcomes(u) : start_command(u, outcome, sent)

\* login_command, status_command, plans_command, protected_commands: the
\* check first, and the command's own reply only when it passed
gated_command(u, outcome, sent) ==
    LET g == force_join_check(force_join_pending_users, timers, u, outcome, sent)
    IN  /\ TimersRoom(g)
        /\ force_join_pending_users' = g.pending
        /\ timers' = g.timers
        /\ last' = [op |-> "command", caller |-> u,
                    reply |-> IF g.passed THEN "served"
                              ELSE IF sent THEN "join_prompt" ELSE "none",
                    checks |-> <<g.check>>]
        /\ UNCHANGED <<users, membership, login_states, adminVars, adVars, sessVars, otherVars>>

GatedCommand ==
    \E u \in GateUsers, sent \in BOOLEAN :
        \E outcome \in LookupOutcomes(u) : gated_command(u, outcome, sent)

\* start_command(client, callback.message): callback.message is a message
\* of the bot, so the account added and checked is the bot's own
bot_start(pend, tmr, outcome, sent) ==
    force_join_check(pend, tmr, BOT_ID, outcome, sent)

\* callback_handler, data "check_join_<id>".  The account checked is the
\* sender of the callback.  When the check passes the prompt is deleted
\* (deleted: the deletion works) and start_command runs on it.
callback_check_join(u, outcome, sent, deleted, outcome2, sent2) ==
    LET g  == force_join_check(force_join_pending_users, timers, u, outcome, sent)
        g2 == bot_start(g.pending, g.timers, outcome2, sent2)
        nested == g.passed /\ deleted
    IN  /\ TimersRoom(IF nested THEN g2 ELSE g)
        /\ users' = IF nested THEN add_user(users, BOT_ID) ELSE users
        /\ force_join_pending_users' = IF nested THEN g2.pending ELSE g.pending
        /\ timers' = IF nested THEN g2.timers ELSE g.timers
        /\ last' = [op |-> "check_join", caller |-> u,
                    reply |-> IF ~g.passed THEN "still_not_joined"
                              ELSE IF ~deleted THEN "error_occurred"
                              ELSE IF g2.passed THEN "welcome"
                              ELSE IF sent2 THEN "join_prompt" ELSE "none",
                    checks |-> IF nested THEN <<g.check, g2.check>> ELSE <<g.check>>,
                    acks |-> IF ~g.passed THEN 1 ELSE IF ~deleted THEN 2 ELSE 0]
        /\ UNCHANGED <<membership, login_states, adminVars, adVars, sessVars, otherVars>>

CallbackCheckJoin ==
    \E u \in GateUsers, sent \in BOOLEAN :
        \E outcome \in LookupOutcomes(u) :
            IF is_user_member_of_channel(outcome)
            THEN \E deleted \in BOOLEAN, sent2 \in BOOLEAN :
                    \E outcome2 \in LookupOutcomes(BOT_ID) :
                        callback_check_join(u, outcome, sent, deleted, outcome2, sent2)
            ELSE callback_check_join(u, outcome, sent, FALSE, "left", FALSE)

\* callback_handler, data "back_home" (deleted: the deletion works, then
\* start_command runs on the bot's message) and data "view_plans"
\* (plans_command runs on the bot's message)
callback_on_bot_message(u, data, deleted, outcome2, sent2) ==
    LET g2 == bot_start(force_join_pending_users, timers, outcome2, sent2)
        nested == data = "view_plans" \/ deleted
    IN  /\ nested => TimersRoom(g2)
        /\ users' = IF nested /\ data = "back_home" THEN add_user(users, BOT_ID)
                    ELSE users
        /\ force_join_pending_users' = IF nested THEN g2.pending
                                       ELSE force_join_pending_users
        /\ timers' = IF nested THEN g2.timers ELSE timers
        /\ last' = [op |-> data, caller |-> u,
                    reply |-> IF ~nested THEN "error_occurred"
                              ELSE IF g2.passed THEN "served"
                              ELSE IF sent2 THEN "join_prompt" ELSE "none",
                    checks |-> IF nested THEN <<g2.check>> ELSE <<>>,
                    acks |-> IF nested THEN 1 ELSE 2]
        /\ UNCHANGED <<membership, login_states, adminVars, adVars, sessVars, otherVars>>

CallbackOnBotMessage ==
    \E u \in GateUsers, data \in {"back_home", "view_plans"},
       deleted \in BOOLEAN, sent2 \in BOOLEAN :
        \E outcome2 \in LookupOutcomes(BOT_ID) :
            callback_on_bot_message(u, data, deleted, outcome2, sent2)

\* callback_handler, data "start_login" (edited: edit_text works), the data
\* that only shows something, and data no branch names ("unknown"), which
\* is answered in the else branch
callback_other(u, data, edited) ==
    /\ login_states' = IF data = "start_login" /\ edited THEN login_states \cup {u}
                       ELSE login_states
    /\ last' = [op |-> data, caller |-> u,
                reply |-> IF data = "unknown" THEN "coming_soon"
                          ELSE IF ~edited THEN "error_occurred"
                          ELSE IF data = "start_login" THEN "phone_prompt"
                          ELSE "shown",
                checks |-> <<>>,
                acks |-> IF data = "unknown" \/ ~edited THEN 2 ELSE 1]
    /\ UNCHANGED <<users, force_join_pending_users, timers, membership,
                   adminVars, adVars, sessVars, otherVars>>

CallbackOther ==
    \E u \in GateUsers, data \in {"start_login", "show_status", "unknown"},
       edited \in BOOLEAN :
        callback_other(u, data, edited)

\* message_handler: any private message no command handler took.
\* flow_ends: handle_login_flow finishes or abandons the login.
message_handler(u, outcome, sent, flow_ends) ==
    LET g == force_join_check(force_join_pending_users, timers, u, outcome, sent)
        in_flow == u \in login_states
        checked == ~in_flow /\ u \in force_join_pending_users
    IN  /\ checked => TimersRoom(g)
        /\ login_states' = IF in_flow /\ flow_ends THEN login_states \ {u}
                           ELSE login_states
        /\ force_join_pending_users' = IF checked THEN g.pending
                                       ELSE force_join_pending_users
        /\ timers' = IF checked THEN g.timers ELSE timers
        /\ last' = [op |-> "message", caller |-> u,
                    reply |-> IF in_flow THEN "login_flow"
                              ELSE IF checked /\ ~g.passed /\ sent THEN "join_prompt"
                              ELSE "none",
                    checks |-> IF checked THEN <<g.check>> ELSE <<>>]
        /\ UNCHANGED <<users, membership, adminVars, adVars, sessVars, otherVars>>

MessageHandler ==
    \E u \in GateUsers, sent \in BOOLEAN, flow_ends \in BOOLEAN :
        \E outcome \in LookupOutcomes(u) : message_handler(u, outcome, sent, flow_ends)

\* auto_remove_pending_user, once its sleep is over
auto_remove_pending_user(u) ==
    /\ timers[u] > 0
    /\ timers' = [timers EXCEPT ![u] = @ - 1]
    /\ force_join_pending_users' = force_join_pending_users \ {u}
    /\ last' = [op |-> "timeout", caller |-> u, reply |-> "none", checks |-> <<>>]
    /\ UNCHANGED <<users, membership, login_states, adminVars, adVars, sessVars, otherVars>>

AutoRemovePendingUser == \E u \in GateUsers \cup {BOT_ID} : auto_remove_pending_user(u)

\* platform side: an account joins or leaves the channel
ChannelChange ==
    \E u \in GateUsers \cup {BOT_ID}, where \in {"joined", "left"} :
        /\ membership[u] # where
        /\ membership' = [membership EXCEPT ![u] = where]
        /\ UNCHANGED <<users, force_join_pending_users, timers, login_states,
                       adminVars, adVars, sessVars, otherVars, last>>

----------------------------------------------------------------------------
(* main.py: sessions and /logout *)

\* Database.update_user_session: UPDATE users SET session_string = ?
update_user_session(tbl, u) ==
    IF u \in DOMAIN tbl THEN [tbl EXCEPT ![u].session_string = TRUE] ELSE tbl

\* Database.set_user_active: UPDATE users SET is_active = ?
set_user_active(tbl, u, flag) ==
    IF u \in DOMAIN tbl THEN [tbl EXCEPT ![u].is_active = flag] ELSE tbl

\* UPDATE users SET session_string = NULL, is_active = 0 WHERE user_id = ?
ClearSession(tbl, u) ==
    IF u \in DOMAIN tbl
    THEN [tbl EXCEPT ![u].session_string = FALSE, ![u].is_active = FALSE]
    ELSE tbl

\* the login state machine reaches logged_in: the credential is persisted
\* and the live session goes into the registry
login_completed(u) ==
    /\ u \in DOMAIN users
    /\ users' = update_user_session(users, u)
    /\ active_sessions' = active_sessions \cup {u}
    /\ last' = [op |-> "login", caller |-> u, reply |-> "logged_in"]
    /\ UNCHANGED <<running, adminVars, adVars, joinVars, otherVars>>

LoginCompleted == \E u \in Payers : login_completed(u)

\* /start_ads: needs a persisted session, flips is_active and starts the loop
start_ads(u) ==
    LET ready == u \in DOMAIN users /\ users[u].session_string
    IN  /\ users' = IF ready THEN set_user_active(users, u, TRUE) ELSE users
        /\ running' = IF ready THEN running \cup {u} ELSE running
        /\ last' = [op |-> "start_ads", caller |-> u,
                    reply |-> IF ready THEN "started" ELSE "login_first"]
        /\ UNCHANGED <<active_sessions, adminVars, adVars, joinVars, otherVars>>

StartAds == \E u \in Payers : start_ads(u)

\* logout_command: "await active_sessions[user_id].stop()" and then "del";
\* when stop() raises, the bare except skips the del
RegistryAfterStop(reg, u, stop) ==
    IF u \in reg /\ stop = "ok" THEN reg \ {u} ELSE reg

\* main.py logout_command.  stop: what the remote termination does.
\* cleared: the UPDATE that clears the session fields works; when it raises
\* the handler ends there, without the confirmation.
logout_command(u, stop, cleared) ==
    /\ users' = IF cleared THEN ClearSession(set_user_active(users, u, FALSE), u)
                ELSE set_user_active(users, u, FALSE)
    /\ running' = running \ {u}
    /\ active_sessions' = RegistryAfterStop(active_sessions, u, stop)
    /\ last' = [op |-> "logout", caller |-> u,
                reply |-> IF cleared THEN "logged_out" ELSE "raised",
                stop |-> IF u \in active_sessions THEN stop ELSE "not_called"]
    /\ UNCHANGED <<adminVars, adVars, joinVars, otherVars>>

LogoutCommand ==
    \E u \in Payers, stop \in {"ok", "raises"}, cleared \in BOOLEAN :
        logout_command(u, stop, cleared)

----------------------------------------------------------------------------
(* main.py and advanced_handlers.py: the callback entry points *)

\* main.py login_command on the message msg_of: an account with a stored
\* session is told so, any other is put in the login flow
MainLoginStates(ls, tbl, msg_of) ==
    IF msg_of \in DOMAIN tbl /\ tbl[msg_of].session_string THEN ls
    ELSE ls \cup {msg_of}

MainCallbackData ==
    {"login_now", "show_help", "analytics_7", "analytics_7d", "unknown"}

\* main.py callback_handler.  The commands it calls get callback_query.message,
\* a message of the bot.  int(days) raises for "analytics_7d", the data of the
\* buttons analytics_command builds.  raised: the call of the branch raises.
\* Nothing catches, so the answer at the end is reached only when nothing raised.
main_callback_handler(u, data, raised) ==
    LET fails == data = "analytics_7d" \/ (raised /\ data # "unknown")
    IN  /\ login_states' = IF data = "login_now" /\ ~fails
                           THEN MainLoginStates(login_states, users, BOT_ID)
                           ELSE login_states
        /\ last' = [op |-> "main_callback", caller |-> u, data |-> data,
                    reply |-> IF fails THEN "raised" ELSE "answered",
                    acks |-> IF fails THEN 0 ELSE 1]
        /\ UNCHANGED <<users, force_join_pending_users, timers, membership,
                       adminVars, adVars, sessVars, otherVars>>

MainCallbackHandler ==
    \E u \in GateUsers, data \in MainCallbackData, raised \in BOOLEAN :
        main_callback_handler(u, data, raised)

AdvCallbackData == {"analytics_7d", "close_menu", "unknown"}

\* AdvancedCommandHandlers.callback_handler.  allowed: the verdict of
\* _check_user_access (rate limiter and cooldown, whose bookkeeping is not
\* followed here).  raised: the branch raises.  Only the refusal and the
\* except clause answer the callback.
adv_callback_handler(u, data, allowed, raised) ==
    LET fails == allowed /\ raised /\ data # "unknown"
    IN  /\ last' = [op |-> "adv_callback", caller |-> u, data |-> data,
                    reply |-> IF ~allowed THEN "please_wait"
                              ELSE IF fails THEN "error_occurred"
                              ELSE IF data = "unknown" THEN "none" ELSE "shown",
                    acks |-> IF ~allowed \/ fails THEN 1 ELSE 0]
        /\ UNCHANGED <<users, joinVars, adminVars, adVars, sessVars, otherVars>>

AdvCallbackHandler ==
    \E u \in GateUsers, data \in AdvCallbackData, allowed \in BOOLEAN,
       raised \in BOOLEAN :
        adv_callback_handler(u, data, allowed, raised)

----------------------------------------------------------------------------
(* main.py: flow states and the routing of inbound messages *)

\* main.py login_command; sent: the reply that precedes the assignment works
main_login_command(u, sent) ==
    /\ login_states' = IF sent THEN MainLoginStates(login_states, users, u)
                       ELSE login_states
    /\ last' = [op |-> "main_login", caller |-> u,
                reply |-> IF ~sent THEN "raised"
                          ELSE IF u \in login_states' THEN "send_phone"
                          ELSE "already_logged_in"]
    /\ UNCHANGED <<users, force_join_pending_users, timers, membership,
                   adminVars, adVars, sessVars, otherVars>>

MainLoginCommand ==
    \E u \in AdminCallers, sent \in BOOLEAN : main_login_command(u, sent)

\* main.py setad_command, and ad_handler.start_ad_setup behind it
main_setad_command(u) ==
    LET ready == u \in DOMAIN users /\ users[u].session_string
    IN  /\ ad_setup_state' = IF ready THEN ad_setup_state \cup {u} ELSE ad_setup_state
        /\ last' = [op |-> "setad", caller |-> u,
                    reply |-> IF ready THEN "send_ad" ELSE "login_first"]
        /\ UNCHANGED <<users, upgrade_state, adminVars, adVars, joinVars, sessVars,
                       restVars>>

MainSetadCommand == \E u \in AdminCallers : main_setad_command(u)

\* main.py upgrade_command, and upgrade_handler behind it: the user is asked
\* for a payment proof
main_upgrade_command(u) ==
    /\ upgrade_state' = upgrade_state \cup {u}
    /\ last' = [op |-> "upgrade", caller |-> u, reply |-> "send_proof"]
    /\ UNCHANGED <<users, ad_setup_state, adminVars, adVars, joinVars, sessVars,
                   restVars>>

MainUpgradeCommand == \E u \in AdminCallers : main_upgrade_command(u)

\* a registered command, /cancel (which no handler is registered for),
\* free text, and a photo
InboundMessages == {"/status", "/cancel", "text", "photo"}

\* the flow states u has
FlowsOf(u) ==
    (IF u \in login_states THEN {"login"} ELSE {})
        \cup (IF u \in ad_setup_state THEN {"ad"} ELSE {})
        \cup (IF u \in owner_state THEN {"owner_ad"} ELSE {})
        \cup (IF u \in upgrade_state THEN {"payment_proof"} ELSE {})

\* the component each flow state belongs to
FlowOwner ==
    [login |-> "login_flow", ad |-> "ad_flow", owner_ad |-> "owner_ad_flow",
     payment_proof |-> "payment_proof_flow"]

\* Where a private message goes.  The filter of message_handler excludes the
\* registered commands, which their own handlers take.  In message_handler the
\* owner's message reaches "admin_handler.owner_ad_state", an attribute
\* AdminHandler does not have, and the handler raises there.
Route(u, msg) ==
    IF msg = "/status" THEN "status_command"
    ELSE IF u \in login_states THEN "login_flow"
    ELSE IF u \in ad_setup_state THEN "ad_flow"
    ELSE IF u = OWNER_ID THEN "raised"
    ELSE IF u \in upgrade_state /\ msg = "photo" THEN "payment_proof_flow"
    ELSE "unknown_command"

\* One private message to the orchestrator.  Each flow component drops the
\* state on /cancel; on other input it goes on (flow_ends: it finishes).
\* A finished ad flow saves the ad, a payment proof creates the payment.
main_inbound(u, msg, flow_ends, txt, plan) ==
    LET to    == Route(u, msg)
        ends  == msg = "/cancel" \/ flow_ends
        saves == to = "ad_flow" /\ msg # "/cancel" /\ flow_ends
        pays  == to = "payment_proof_flow"
    IN  /\ saves => ad_seq < MaxAds
        /\ pays => Len(payments) < MaxPayments
        /\ login_states' = IF to = "login_flow" /\ ends THEN login_states \ {u}
                           ELSE login_states
        /\ ad_setup_state' = IF to = "ad_flow" /\ ends THEN ad_setup_state \ {u}
                             ELSE ad_setup_state
        /\ upgrade_state' = IF pays THEN upgrade_state \ {u} ELSE upgrade_state
        /\ ads' = IF saves THEN InsertAd(DeactivateUserAds(ads, u), ad_seq + 1, u, txt)
                  ELSE ads
        /\ ad_seq' = IF saves THEN ad_seq + 1 ELSE ad_seq
        /\ last_saved' = IF saves THEN [last_saved EXCEPT ![u] = ad_seq + 1]
                         ELSE last_saved
        /\ payments' = IF pays
                       THEN Append(payments,
                                   [user_id |-> u, plan_type |-> plan,
                                    status |-> "pending", approved_at |-> None,
                                    rejected_reason |-> None])
                       ELSE payments
        /\ last' = [op |-> "inbound", caller |-> u, msg |-> msg, routed |-> to,
                    had |-> FlowsOf(u), reply |-> to]
        /\ UNCHANGED <<users, owner_ads, owner_state, flood_protection, now,
                       force_join_pending_users, timers, membership, sessVars,
                       restVars>>

MainInbound ==
    \E u \in AdminCallers, msg \in InboundMessages, flow_ends \in BOOLEAN :
        main_inbound(u, msg, flow_ends, "A", "basic")

----------------------------------------------------------------------------
\* ---------------------------------------------------------------------
\* ScheduledCampaignManager (advanced_features.py)

MaxCampaigns == 2

\* INSERT INTO scheduled_campaigns ... VALUES (?, ?, ?, 'pending')
schedule_campaign(u, ad_id, at) ==
    /\ Len(scheduled_campaigns) < MaxCampaigns
    /\ scheduled_campaigns' = Append(scheduled_campaigns,
                                     [user_id |-> u, ad_id |-> ad_id,
                                      scheduled_time |-> at, status |-> "pending"])
    /\ last' = [op |-> "schedule_campaign", caller |-> u,
                reply |-> Len(scheduled_campaigns) + 1]
    /\ UNCHANGED <<users, scheduler_running, scheduler_pending, scheduler_calls,
                   worker_tasks, worker_sleep, forward_triggers, adminVars, adVars,
                   joinVars, sessVars, flowVars, bcastVars, thrVars, rotVars, auxVars>>

ScheduleCampaign ==
    \E u \in Payers, at \in 0..MaxTime : schedule_campaign(u, 1, at)

\* the most start_scheduler calls made
MaxSchedulerCalls == 3

\* a caller creates the coroutine start_scheduler() and hands it to the event
\* loop; calls made before an earlier one has run overlap with it
CallStartScheduler ==
    /\ scheduler_calls < MaxSchedulerCalls
    /\ scheduler_calls' = scheduler_calls + 1
    /\ scheduler_pending' = scheduler_pending + 1
    /\ last' = [op |-> "call_start_scheduler", caller |-> BOT_ID, reply |-> "none"]
    /\ UNCHANGED <<users, scheduled_campaigns, scheduler_running, worker_tasks,
                   worker_sleep, forward_triggers, adminVars, adVars, joinVars, sessVars, flowVars,
                   bcastVars, thrVars, rotVars, auxVars>>

\* a check that never finds the scheduler running
SeenStopped == FALSE

\* if self._running
SeenRunning == scheduler_running

\* start_scheduler: the body of one pending call.  It holds no await, so the
\* event loop runs it in one piece: a call that finds _running set returns at
\* once; otherwise it sets _running and creates the worker task.
start_scheduler ==
    /\ scheduler_pending > 0
    /\ scheduler_pending' = scheduler_pending - 1
    /\ IF SeenRunning
       THEN /\ last' = [op |-> "start_scheduler", caller |-> BOT_ID,
                        reply |-> "already_running"]
            /\ UNCHANGED <<scheduler_running, worker_tasks>>
       ELSE /\ scheduler_running' = TRUE
            /\ worker_tasks' = worker_tasks + 1
            /\ last' = [op |-> "start_scheduler", caller |-> BOT_ID,
                        reply |-> "started"]
    /\ UNCHANGED <<users, scheduled_campaigns, scheduler_calls, worker_sleep,
                   forward_triggers, adminVars, adVars, joinVars, sessVars, flowVars, bcastVars,
                   thrVars, rotVars, auxVars>>

\* SELECT ... WHERE status = 'pending' AND scheduled_time <= now LIMIT 10:
\* the ids of the rows, in table order.
PENDING_LIMIT == 10

RECURSIVE DueIds(_, _, _)
DueIds(tbl, t, i) ==
    IF i > Len(tbl) THEN <<>>
    ELSE IF tbl[i].status = "pending" /\ tbl[i].scheduled_time <= t
         THEN <<i>> \o DueIds(tbl, t, i + 1)
         ELSE DueIds(tbl, t, i + 1)

get_pending_campaigns(tbl, t) ==
    LET due == DueIds(tbl, t, 1)
    IN  IF Len(due) <= PENDING_LIMIT THEN due ELSE SubSeq(due, 1, PENDING_LIMIT)

\* UPDATE scheduled_campaigns SET status = 'completed'
\* WHERE id = ? AND status = 'pending'
mark_completed(tbl, id) ==
    [i \in 1..Len(tbl) |->
        IF i = id /\ tbl[i].status = "pending"
        THEN [tbl[i] EXCEPT !.status = "completed"]
        ELSE tbl[i]]

RECURSIVE MarkAll(_, _)
MarkAll(tbl, ids) ==
    IF ids = <<>> THEN tbl
    ELSE MarkAll(mark_completed(tbl, Head(ids)), Tail(ids))

\* a batch whose items can be read by key, as rows or dicts can
CampaignIsMapping == TRUE

\* get_pending_campaigns returns Campaign objects, and Campaign is a
\* dataclass: campaign['id'] in the worker's loop raises TypeError.
CampaignSubscriptable == FALSE

\* passes that reach the forwarding step are counted up to this many per campaign
MaxTriggers == 2

\* The for loop of the pass over the batch `due`, where mark_completed raises
\* for the item at position fail_at (0: for none).  The first statement of
\* the body formats campaign['id'] into the log line; the forwarding step
\* comes after it and mark_completed after that.  Reached: the items
\* whose forwarding step the pass gets to; Marked: those it marks.
Reached(due, fail_at) ==
    IF ~CampaignSubscriptable THEN <<>>
    ELSE IF fail_at = 0 THEN due ELSE SubSeq(due, 1, fail_at)

Marked(due, fail_at) ==
    IF ~CampaignSubscriptable THEN <<>>
    ELSE IF fail_at = 0 THEN due ELSE SubSeq(due, 1, fail_at - 1)

\* One pass of the loop of _campaign_worker: the rows that are due are
\* fetched and handled one after the other, then the worker sleeps 30 s; an
\* exception inside the pass ends it, is logged, and the worker sleeps 60 s.
\* Either way the loop goes round again while _running holds.
campaign_worker ==
    LET due == get_pending_campaigns(scheduled_campaigns, now)
    IN  \E fail_at \in 0..Len(due) :
          LET raises  == due # <<>> /\ (~CampaignSubscriptable \/ fail_at > 0)
              reached == Reached(due, fail_at)
              hit     == {reached[k] : k \in 1..Len(reached)}
          IN  /\ scheduler_running
              /\ \A i \in hit : forward_triggers[i] < MaxTriggers
              /\ forward_triggers' =
                     [i \in 1..MaxCampaigns |->
                         IF i \in hit THEN forward_triggers[i] + 1
                         ELSE forward_triggers[i]]
              /\ scheduled_campaigns' = MarkAll(scheduled_campaigns, Marked(due, fail_at))
              /\ worker_sleep' = IF raises THEN 60 ELSE 30
              /\ last' = [op |-> "campaign_worker", caller |-> BOT_ID,
                          reply |-> IF raises THEN "scheduler_error" ELSE "slept"]
              /\ UNCHANGED <<users, scheduler_running, scheduler_pending, scheduler_calls,
                             worker_tasks, adminVars, adVars, joinVars,
                             sessVars, flowVars, bcastVars, thrVars, rotVars, auxVars>>

\* ---------------------------------------------------------------------
\* Database.save_ad, statement by statement (database.py), as run by the
\* worker threads of asyncio.to_thread.  Each call opens its own
\* connection; what it writes stays in that connection's transaction until
\* conn.commit().

Threads == {"t1", "t2"}

\* the user all the concurrent calls save for
SaveUser == "alice"

\* "with self.lock" goes on without the lock being free
LockIgnored(l) == TRUE

\* "with self.lock": the lock can be taken when nobody holds it
LockFree(l) == l = {}

\* the connection is dropped and what it wrote becomes the table
RollbackKeepsWork(committed, working) == working

\* a connection dropped without commit: the store keeps the committed table
Rollback(committed, working) == committed

\* the thread is inside the "with self.lock" block
InBlock(p) == pc[p] \in {"locked", "in_txn", "to_commit"}

\* the store has a write transaction of another connection open
Busy(p) == \E q \in Threads \ {p} : txn[q] # None

\* asyncio.to_thread(super().save_ad, ...): the call starts in a thread
save_ad_call(p) ==
    /\ pc[p] = "idle"
    /\ ad_seq < MaxAds
    /\ pc' = [pc EXCEPT ![p] = "waiting"]
    /\ last' = [op |-> "save_ad_call", caller |-> p, reply |-> "none"]
    /\ UNCHANGED <<users, adminVars, adVars, joinVars, sessVars, flowVars,
                   rotVars, auxVars, campVars, bcastVars, lock, txn, entry_ads>>

\* with self.lock:
save_ad_acquire(p) ==
    /\ pc[p] = "waiting"
    /\ LockFree(lock)
    /\ lock' = lock \cup {p}
    /\ pc' = [pc EXCEPT ![p] = "locked"]
    /\ entry_ads' = [entry_ads EXCEPT ![p] = ads]
    /\ last' = [op |-> "save_ad_acquire", caller |-> p, reply |-> "none"]
    /\ UNCHANGED <<users, adminVars, adVars, joinVars, sessVars, flowVars,
                   rotVars, auxVars, campVars, bcastVars, txn>>

\* UPDATE ads SET is_active = 0 WHERE user_id = ?  -- opens the transaction;
\* while another connection still has one open the statement ends in
\* "database is locked", which leaves the block.
save_ad_deactivate(p) ==
    /\ pc[p] = "locked"
    /\ IF Busy(p)
       THEN /\ pc' = [pc EXCEPT ![p] = "idle"]
            /\ lock' = lock \ {p}
            /\ last' = [op |-> "save_ad_deactivate", caller |-> p,
                        reply |-> "database_is_locked"]
            /\ UNCHANGED txn
       ELSE /\ pc' = [pc EXCEPT ![p] = "in_txn"]
            /\ txn' = [txn EXCEPT ![p] = Some(DeactivateUserAds(ads, SaveUser))]
            /\ last' = [op |-> "save_ad_deactivate", caller |-> p, reply |-> "ok"]
            /\ UNCHANGED lock
    /\ UNCHANGED <<users, adminVars, adVars, joinVars, sessVars, flowVars,
                   rotVars, auxVars, campVars, bcastVars, entry_ads>>

\* INSERT INTO ads ...  When it raises, the block is left: the lock is
\* released, commit() and close() are skipped and the connection stays
\* open until it is finalised.
save_ad_insert(p, txt, ok) ==
    /\ pc[p] = "in_txn"
    /\ IF ok
       THEN /\ pc' = [pc EXCEPT ![p] = "to_commit"]
            /\ txn' = [txn EXCEPT ![p] =
                          {InsertAd(t, ad_seq + 1, SaveUser, txt) : t \in txn[p]}]
            /\ UNCHANGED lock
       ELSE /\ pc' = [pc EXCEPT ![p] = "failed"]
            /\ lock' = lock \ {p}
            /\ UNCHANGED txn
    /\ last' = [op |-> "save_ad_insert", caller |-> p,
                reply |-> IF ok THEN "ok" ELSE "raised"]
    /\ UNCHANGED <<users, adminVars, adVars, joinVars, sessVars, flowVars,
                   rotVars, auxVars, campVars, bcastVars, entry_ads>>

\* conn.commit(); conn.close(); the block ends and the lock is released
save_ad_commit(p) ==
    /\ pc[p] = "to_commit"
    /\ ads' = CHOOSE t \in txn[p] : TRUE
    /\ ad_seq' = ad_seq + 1
    /\ last_saved' = [last_saved EXCEPT ![SaveUser] = ad_seq + 1]
    /\ txn' = [txn EXCEPT ![p] = None]
    /\ lock' = lock \ {p}
    /\ pc' = [pc EXCEPT ![p] = "idle"]
    /\ last' = [op |-> "save_ad_commit", caller |-> p, reply |-> "ok"]
    /\ UNCHANGED <<users, adminVars, joinVars, sessVars, flowVars, rotVars, auxVars, campVars,
                   bcastVars, entry_ads>>

\* the connection of a failed call is finalised: its transaction ends
\* without a commit
save_ad_dropped(p) ==
    /\ pc[p] = "failed"
    /\ ads' = Rollback(ads, CHOOSE t \in txn[p] : TRUE)
    /\ txn' = [txn EXCEPT ![p] = None]
    /\ pc' = [pc EXCEPT ![p] = "idle"]
    /\ last' = [op |-> "save_ad_dropped", caller |-> p, reply |-> "raised"]
    /\ UNCHANGED <<users, ad_seq, last_saved, adminVars, joinVars, sessVars,
                   flowVars, rotVars, auxVars, campVars, bcastVars, lock, entry_ads>>

\* Database.get_active_ad, under the lock: SELECT ... WHERE is_active = 1
\* ... LIMIT 1.  seen: how many rows the read returns.
get_active_ad(u) ==
    /\ LockFree(lock)
    /\ last' = [op |-> "get_active_ad", caller |-> u, reply |-> "ok",
                seen |-> IF ActiveAds(u) = {} THEN 0 ELSE 1]
    /\ UNCHANGED <<users, adminVars, adVars, joinVars, sessVars, otherVars>>

\* AdRotationManager.get_user_ads: every active row of the user, read
\* through the connection of advanced_features.AsyncDatabase, which takes
\* no lock.  seen: how many rows the read returns.
get_user_ads(u) ==
    /\ last' = [op |-> "get_user_ads", caller |-> u, reply |-> "ok",
                seen |-> Cardinality(ActiveAds(u))]
    /\ UNCHANGED <<users, adminVars, adVars, joinVars, sessVars, otherVars>>

SaveAdThread ==
    \E p \in Threads :
        \/ save_ad_call(p)
        \/ save_ad_acquire(p)
        \/ save_ad_deactivate(p)
        \/ \E ok \in BOOLEAN : save_ad_insert(p, "A", ok)
        \/ save_ad_commit(p)
        \/ save_ad_dropped(p)

Readers == get_active_ad(SaveUser) \/ get_user_ads(SaveUser)

\* ---------------------------------------------------------------------
\* AdRotationManager.get_next_ad (advanced_features.py)

MaxRotationAds == 3

\* the success counts a row can carry
SuccessCounts == {0, 1, 9}

\* what get_user_ads can return: up to MaxRotationAds rows
RotationRows ==
    UNION {[1..n -> SuccessCounts] : n \in 0..MaxRotationAds}

\* a weight without the +1
WeightWithoutFloor(success_count) == success_count

\* weight = ad['success_count'] + 1
Weight(success_count) == success_count + 1

\* total_weight = sum(ad['success_count'] + 1 for ad in ads)
RECURSIVE TotalWeight(_)
TotalWeight(rows) ==
    IF rows = <<>> THEN 0 ELSE Weight(Head(rows)) + TotalWeight(Tail(rows))

\* the for loop from row i on, with the running sum current: the index of
\* the row returned; after the last row the fallback "return ads[0]"
RECURSIVE Walk(_, _, _, _)
Walk(rows, r, i, current) ==
    IF i > Len(rows) THEN 1
    ELSE IF r < current + Weight(rows[i]) THEN i
         ELSE Walk(rows, r, i + 1, current + Weight(rows[i]))

\* get_next_ad on the rows of the user, for the draw r: the index of the
\* row returned, 0 for None
NextAdIndex(rows, r) == IF rows = <<>> THEN 0 ELSE Walk(rows, r, 1, 0)

\* r = loop.time() % total_weight: a time in [k, k+1) takes every
\* comparison of the loop as the integer k does, so the draws are 0..total-1
Draws(rows) == 0..(TotalWeight(rows) - 1)

get_next_ad(u, r) ==
    /\ last' = [op |-> "get_next_ad", caller |-> u, r |-> r,
                reply |-> NextAdIndex(rotation_rows, r)]
    /\ UNCHANGED <<users, adminVars, adVars, joinVars, sessVars, otherVars>>

\* with no active ad the function returns None before any draw
GetNextAd ==
    \E r \in (IF rotation_rows = <<>> THEN {0} ELSE Draws(rotation_rows)) :
        get_next_ad(SaveUser, r)

\* ---------------------------------------------------------------------
\* ReferralSystem (advanced_features.py)

MaxReferred == 10

\* the accounts a referrer can bring in
ReferredIds == 1..MaxReferred

\* REWARD_TIERS = {3: 7, 5: 15, 10: 30}: referrals -> premium days
RewardThresholds == {3, 5, 10}

REWARD_TIERS == [t \in RewardThresholds |-> CASE t = 3 -> 7 [] t = 5 -> 15 [] t = 10 -> 30]

\* INSERT OR IGNORE INTO referrals (referrer_id, referred_id): a pair that
\* is already there is left alone; reward_granted starts at 0
track_referral(referrer, referred) ==
    LET isnew == \A x \in referrals :
                     ~(x.referrer_id = referrer /\ x.referred_id = referred)
    IN  /\ referrals' = IF isnew
                        THEN referrals \cup {[referrer_id |-> referrer,
                                              referred_id |-> referred,
                                              reward_granted |-> FALSE]}
                        ELSE referrals
        /\ last' = [op |-> "track_referral", caller |-> referrer, reply |-> isnew]
        /\ UNCHANGED <<users, baseVars, auxButRef>>

TrackReferral == \E referred \in ReferredIds : track_referral("alice", referred)

\* the single highest tier met, instead of the sum
HighestTier(tiers, total) ==
    LET met == {t \in tiers : total >= t}
    IN  IF met = {} THEN 0
        ELSE REWARD_TIERS[CHOOSE t \in met : \A o \in met : o <= t]

\* sum(days for threshold, days in REWARD_TIERS.items() if total >= threshold)
RECURSIVE SumTiers(_, _)
SumTiers(tiers, total) ==
    IF tiers = {} THEN 0
    ELSE LET t == CHOOSE x \in tiers : TRUE
         IN  (IF total >= t THEN REWARD_TIERS[t] ELSE 0) + SumTiers(tiers \ {t}, total)

\* ReferralSystem.get_stats
get_stats(tbl, u) ==
    LET mine == {x \in tbl : x.referrer_id = u}
        total == Cardinality(mine)
    IN  [total |-> total,
         rewarded |-> Cardinality({x \in mine : x.reward_granted}),
         pending |-> Cardinality({x \in mine : ~x.reward_granted}),
         available_rewards |-> SumTiers(RewardThresholds, total)]

GetStats ==
    \E u \in Payers :
        /\ last' = [op |-> "get_stats", caller |-> u, reply |-> get_stats(referrals, u)]
        /\ UNCHANGED <<users, baseVars, auxVars>>

\* ---------------------------------------------------------------------
\* Database: the user queries of the broadcast and scheduling subsystems

\* the lengths update_user_premium is called with
PremiumDays == {0, 1}

\* Database.update_user_premium: expires = now + days, or NULL
update_user_premium(tbl, u, is_premium, days, t) ==
    IF u \in DOMAIN tbl
    THEN [tbl EXCEPT ![u].is_premium = is_premium,
                     ![u].subscription_expires =
                         IF is_premium THEN Some(t + days) ELSE None]
    ELSE tbl

UpdateUserPremium ==
    \E u \in Payers, is_premium \in BOOLEAN, days \in PremiumDays :
        /\ users' = update_user_premium(users, u, is_premium, days, now)
        /\ last' = [op |-> "update_user_premium", caller |-> u, reply |-> "ok"]
        /\ UNCHANGED <<baseVars, auxVars>>

SetUserActive ==
    \E u \in Payers, flag \in BOOLEAN :
        /\ users' = set_user_active(users, u, flag)
        /\ last' = [op |-> "set_user_active", caller |-> u, reply |-> "ok"]
        /\ UNCHANGED <<baseVars, auxVars>>

\* SELECT * FROM users WHERE is_active = 1 AND session_string IS NOT NULL
get_active_users(tbl) ==
    {u \in DOMAIN tbl : tbl[u].is_active /\ tbl[u].session_string}

\* the query without its subscription_expires term
FreeUsersIgnoringExpiry(tbl, t) ==
    {u \in DOMAIN tbl : tbl[u].is_active /\ tbl[u].session_string /\ ~tbl[u].is_premium}

\* SELECT * FROM users WHERE is_active = 1 AND session_string IS NOT NULL
\* AND (is_premium = 0 OR subscription_expires < CURRENT_TIMESTAMP);
\* a NULL subscription_expires compares as not true
get_free_users(tbl, t) ==
    {u \in DOMAIN tbl :
        /\ tbl[u].is_active
        /\ tbl[u].session_string
        /\ \/ ~tbl[u].is_premium
           \/ \E e \in tbl[u].subscription_expires : e < t}

GetUsers ==
    /\ \/ last' = [op |-> "get_free_users", caller |-> BOT_ID, at |-> now,
                   reply |-> get_free_users(users, now)]
       \/ last' = [op |-> "get_active_users", caller |-> BOT_ID, at |-> now,
                   reply |-> get_active_users(users)]
    /\ UNCHANGED <<users, baseVars, auxVars>>

\* ---------------------------------------------------------------------
\* Table forwarding_logs: created by Database.init_db (database.py) or by
\* AsyncDatabase._migrate_schema (advanced_features.py), whichever runs
\* first on the file; both say CREATE TABLE IF NOT EXISTS.

MaxLogs == 3

\* the statuses a caller can pass to add_forwarding_log
LogStatuses == {"success", "failed", "skipped", "error"}

\* CREATE TABLE IF NOT EXISTS: the first creation stays
CreateIfNotExists(schema, mine) == IF schema = "none" THEN mine ELSE schema

\* Database.init_db: columns group_name, status TEXT, error_message
init_db ==
    /\ logs_schema' = CreateIfNotExists(logs_schema, "database")
    /\ last' = [op |-> "init_db", caller |-> BOT_ID, reply |-> "ok"]
    /\ UNCHANGED <<users, baseVars, auxButLog, forwarding_logs>>

\* AsyncDatabase._migrate_schema: columns ad_id, status TEXT
\* CHECK(status IN ('success', 'failed', 'skipped')), error_msg
migrate_schema ==
    /\ logs_schema' = CreateIfNotExists(logs_schema, "advanced")
    /\ last' = [op |-> "migrate_schema", caller |-> BOT_ID, reply |-> "ok"]
    /\ UNCHANGED <<users, baseVars, auxButLog, forwarding_logs>>

\* what the INSERT of add_forwarding_log meets: no table; the table of
\* init_db, which takes any status; or the table of _migrate_schema, which
\* has no column group_name or error_message
InsertOutcome(schema, status) ==
    CASE schema = "none"     -> "no_such_table"
      [] schema = "database" -> "inserted"
      [] schema = "advanced" -> "no_such_column"

\* Database.add_forwarding_log
add_forwarding_log(u, status) ==
    LET outcome == InsertOutcome(logs_schema, status)
    IN  /\ outcome = "inserted" => Len(forwarding_logs) < MaxLogs
        /\ forwarding_logs' = IF outcome = "inserted"
                              THEN Append(forwarding_logs,
                                          [user_id |-> u, status |-> status])
                              ELSE forwarding_logs
        /\ last' = [op |-> "add_forwarding_log", caller |-> u, reply |-> outcome,
                    status |-> status]
        /\ UNCHANGED <<users, baseVars, auxButLog, logs_schema>>

AddForwardingLog ==
    \E u \in Payers, status \in LogStatuses : add_forwarding_log(u, status)

\* ---------------------------------------------------------------------
\* Table user_groups (database.py): id INTEGER PRIMARY KEY AUTOINCREMENT,
\* user_id, group_id, group_name, added_at DEFAULT CURRENT_TIMESTAMP; the
\* table declares no UNIQUE constraint.

MaxGroupRows == 3

GroupIds == {1, 2}

\* INSERT OR IGNORE INTO user_groups (user_id, group_id, group_name): the
\* row is dropped only when it breaks a constraint of the table, and the only
\* one is the primary key, which the insert draws fresh
add_group(u, g) ==
    /\ group_seq < MaxGroupRows
    /\ user_groups' = user_groups \cup
                          {[id |-> group_seq + 1, user_id |-> u, group_id |-> g,
                            added_at |-> now]}
    /\ group_seq' = group_seq + 1
    /\ last' = [op |-> "add_group", caller |-> u, reply |-> "ok"]
    /\ UNCHANGED <<users, baseVars, auxButGrp>>

AddGroup == \E u \in Payers, g \in GroupIds : add_group(u, g)

\* DELETE FROM user_groups WHERE user_id = ? AND group_id = ?
remove_group(u, g) ==
    /\ user_groups' = {x \in user_groups : ~(x.user_id = u /\ x.group_id = g)}
    /\ last' = [op |-> "remove_group", caller |-> u, reply |-> "ok"]
    /\ UNCHANGED <<users, baseVars, auxButGrp, group_seq>>

RemoveGroup == \E u \in Payers, g \in GroupIds : remove_group(u, g)

\* ---------------------------------------------------------------------
\* /delay: config.py tier tables, Database.update_user_delay, and the
\* DelayHandler of the handlers module

\* FREE_TIER["min_delay"]
FREE_MIN_DELAY == 300

\* PAID_TIER["min_delay"], PAID_TIER["max_delay"]
PAID_MIN_DELAY == 10

PAID_MAX_DELAY == 600

\* the values a user types after /delay
DelayValues == {9, 10, 299, 300, 600, 601}

\* the UPDATE reaches no row
DelayNotStored(tbl, u, v) == tbl

\* UPDATE users SET delay_seconds = ? WHERE user_id = ?
update_user_delay(tbl, u, v) ==
    IF u \in DOMAIN tbl THEN [tbl EXCEPT ![u].delay_seconds = v] ELSE tbl

\* the tier bounds applied to a requested delay
DelayAllowed(premium, v) ==
    IF premium THEN PAID_MIN_DELAY <= v /\ v <= PAID_MAX_DELAY
    ELSE FREE_MIN_DELAY <= v

\* DelayHandler.delay_command: a persisted session is required; the value is
\* validated against the bounds of the user's tier and then persisted
delay_command(u, v) ==
    LET logged  == u \in DOMAIN users /\ users[u].session_string
        premium == logged /\ users[u].is_premium
        ok      == logged /\ DelayAllowed(premium, v)
    IN  /\ users' = IF ok THEN update_user_delay(users, u, v) ELSE users
        /\ last' = [op |-> "delay", caller |-> u, value |-> v,
                    tier |-> IF ~logged THEN "none"
                             ELSE IF premium THEN "paid" ELSE "free",
                    before |-> IF u \in DOMAIN users THEN users[u].delay_seconds
                               ELSE 0,
                    reply |-> IF ~logged THEN "login_first"
                              ELSE IF ok THEN "delay_set" ELSE "out_of_range"]
        /\ UNCHANGED <<baseVars, auxVars>>

DelayCommand == \E u \in Payers, v \in DelayValues : delay_command(u, v)

\* ---------------------------------------------------------------------
\* utils.AntiFlood(max_requests, window): a sliding window per user id

\* the window of the generic command gate, in seconds
RATE_WINDOW == 10

\* the clock of the limiter moves in steps of RateStep seconds up to MaxRateTime
RateStep == 5

MaxRateTime == 15

\* checks made by all users together
MaxRateChecks == 7

\* the attempts of a log that are still inside the window at time t
RECURSIVE Recent(_, _)
Recent(log, t) ==
    IF log = <<>> THEN <<>>
    ELSE IF t - Head(log) < RATE_WINDOW THEN <<Head(log)>> \o Recent(Tail(log), t)
         ELSE Recent(Tail(log), t)

\* attempts never leave the window
NeverExpires(log, t) == log

\* the attempts AntiFlood still counts at time t
Counted(log, t) == Recent(log, t)

\* AntiFlood.check(user_id): is the caller under the limit?  The attempt is
\* recorded whatever the answer.
antiflood_check(u) ==
    LET counted == Counted(rate_log[u], rate_now)
    IN  /\ Len(rate_history["alice"]) + Len(rate_history["bob"]) < MaxRateChecks
        /\ rate_log' = [rate_log EXCEPT ![u] = Append(counted, rate_now)]
        /\ rate_history' = [rate_history EXCEPT ![u] = Append(@, rate_now)]
        /\ last' = [op |-> "antiflood_check", caller |-> u, at |-> rate_now,
                    reply |-> Len(counted) < FLOOD_MAX_REQUESTS]
        /\ UNCHANGED <<users, baseVars, auxButRate, rate_now>>

AntiFloodCheck == \E u \in Payers : antiflood_check(u)

\* time passes
RateTick ==
    /\ rate_now + RateStep <= MaxRateTime
    /\ rate_now' = rate_now + RateStep
    /\ UNCHANGED <<users, baseVars, auxButRate, rate_log, rate_history, last>>

----------------------------------------------------------------------------
\* utils.success_rate. A rate is kept in tenths of a percent: 300 is 30.0.

\* the largest count success_rate is called with
MaxCount == 10

Counts == 0..MaxCount

CountPairs == [success : Counts, total : Counts]

NoCounts == [success |-> 0, total |-> 0]

\* round(n / d * scale, 1) in tenths: the nearest tenth, a tie going to the
\* even one
RoundTenths(n, d) ==
    LET q == n \div d
        r == n % d
    IN  IF 2 * r < d THEN q
        ELSE IF 2 * r > d THEN q + 1
        ELSE IF q % 2 = 0 THEN q ELSE q + 1

\* the quotient rounded without the factor 100
RatioUnscaled(success, total) ==
    IF total > 0 THEN RoundTenths(success * 10, total) ELSE 0

success_rate(success, total) ==
    IF total > 0 THEN RoundTenths(success * 1000, total) ELSE 0

SuccessRate ==
    /\ last' = [op |-> "success_rate", caller |-> BOT_ID, reply |-> "none",
                success |-> stat_counts.success, total |-> stat_counts.total,
                rate |-> success_rate(stat_counts.success, stat_counts.total)]
    /\ UNCHANGED <<users, baseVars, auxVars>>

----------------------------------------------------------------------------
\* utils.get_user_groups_from_account

\* the longest dialog list
MaxDialogs == 3

ChatTypes == {"private", "group", "supergroup", "channel"}

\* chat.members_count: missing, or a number around the threshold
MemberCounts == {None, Some(4), Some(5), Some(6)}

Chats == [type : ChatTypes, members_count : MemberCounts]

DialogLists == UNION {[1..n -> Chats] : n \in 0..MaxDialogs}

\* a missing count taken as large enough
CountMissingAsViable(chat) ==
    IF chat.members_count = None THEN 5 ELSE CHOOSE v \in chat.members_count : TRUE

\* chat.members_count or 0
member_count(chat) ==
    IF chat.members_count = None THEN 0 ELSE CHOOSE v \in chat.members_count : TRUE

\* the chats the loop appends, in dialog order, from position i on
RECURSIVE CollectGroups(_, _)
CollectGroups(dlgs, i) ==
    IF i > Len(dlgs) THEN <<>>
    ELSE IF dlgs[i].type \in {"group", "supergroup"} /\ ~(member_count(dlgs[i]) < 5)
         THEN <<[chat_id |-> i, type |-> dlgs[i].type,
                 members_count |-> dlgs[i].members_count]>>
              \o CollectGroups(dlgs, i + 1)
         ELSE CollectGroups(dlgs, i + 1)

\* the sort key: x.get("members_count", 0)
SortKey(g) == CHOOSE v \in g.members_count : TRUE

\* list.sort(reverse=True) is stable: g goes after every entry whose key is
\* at least its own
InsertDescending(sorted, g) ==
    LET before == SelectSeq(sorted, LAMBDA h : SortKey(h) >= SortKey(g))
        after  == SelectSeq(sorted, LAMBDA h : SortKey(h) < SortKey(g))
    IN  before \o <<g>> \o after

RECURSIVE SortByMembers(_)
SortByMembers(groups) ==
    IF groups = <<>> THEN <<>>
    ELSE InsertDescending(SortByMembers(SubSeq(groups, 1, Len(groups) - 1)),
                          groups[Len(groups)])

\* comparing a missing count raises TypeError, which the outer handler catches
SortRaises(groups) ==
    /\ Len(groups) >= 2
    /\ \E i \in 1..Len(groups) : groups[i].members_count = None

get_user_groups_from_account(dlgs) ==
    LET groups == CollectGroups(dlgs, 1)
    IN  IF SortRaises(groups) THEN <<>> ELSE
        IF Len(groups) < 2 THEN groups ELSE SortByMembers(groups)

\* fails: client.get_dialogs raises, and the handler returns the empty list
GetUserGroupsFromAccount ==
    \E fails \in BOOLEAN :
        /\ last' = [op |-> "get_user_groups_from_account", caller |-> BOT_ID,
                    reply |-> "none", fails |-> fails,
                    groups |-> IF fails THEN <<>>
                               ELSE get_user_groups_from_account(dialogs)]
        /\ UNCHANGED <<users, baseVars, auxVars>>

----------------------------------------------------------------------------
\* AnalyticsManager (advanced_features.py)

\* cache_ttl = timedelta(minutes=5)
CACHE_TTL == 5

\* the last minute of the analytics clock
MaxAnaTime == 5

\* the most get_user_analytics calls made
MaxAnalyticsCalls == 3

\* the lookback windows asked for
AnalyticsDays == {1, 11}

\* the platform's numeric id of each account
TelegramId(u) == IF u = "alice" THEN 1 ELSE 11

DigitChar == <<"0", "1", "2", "3", "4", "5", "6", "7", "8", "9">>

\* str(n) of a natural number, one character per element
RECURSIVE Str(_)
Str(n) == IF n < 10 THEN <<DigitChar[n + 1]>>
          ELSE Str(n \div 10) \o <<DigitChar[(n % 10) + 1]>>

\* the two numbers written one after the other
KeyWithoutSeparator(u, days) == Str(TelegramId(u)) \o Str(days)

\* cache_key = f"{user_id}_{days}"
cache_key(u, days) == Str(TelegramId(u)) \o <<"_">> \o Str(days)

\* COUNT(*) of the user's rows with one of the statuses.  The clock spans
\* minutes, so every row lies inside any window of whole days.
CountLogs(u, statuses) ==
    Cardinality({i \in 1..Len(forwarding_logs) :
                    /\ forwarding_logs[i].user_id = u
                    /\ forwarding_logs[i].status \in statuses})

\* the aggregate row and the rate computed from it: SUM over no rows is NULL,
\* and the rate is the quotient successful * 100 / total, not rounded
Aggregate(u) ==
    LET total      == CountLogs(u, LogStatuses)
        successful == CountLogs(u, {"success"})
        failed     == CountLogs(u, {"failed"})
    IN  [total_forwards |-> total,
         successful |-> IF total = 0 THEN None ELSE Some(successful),
         failed |-> IF total = 0 THEN None ELSE Some(failed),
         success_rate |-> IF total > 0 THEN <<successful * 100, total>>
                          ELSE <<0, 1>>]

\* AnalyticsStats()
EmptyStats ==
    [total_forwards |-> 0, successful |-> Some(0), failed |-> Some(0),
     success_rate |-> <<0, 1>>]

\* the entry under the key, if it is younger than the ttl
CachedHit(key) ==
    {e \in analytics_cache : e.key = key /\ ana_now - e.timestamp < CACHE_TTL}

\* get_user_analytics.  An entry carries, as history, the arguments of the
\* call that computed it.  fails: a query raises (the table user_groups is
\* missing when Database.init_db never ran on the file, the database is
\* locked); the handler then returns AnalyticsStats() and caches nothing.
\* The first connection runs _migrate_schema.
analytics_answer(u, days, fails) ==
    LET hit == CachedHit(cache_key(u, days))
    IN  IF hit # {}
        THEN [reply |-> "cached", queried |-> FALSE,
              stats |-> (CHOOSE e \in hit : TRUE).stats]
        ELSE IF fails
             THEN [reply |-> "error", queried |-> TRUE, stats |-> EmptyStats]
             ELSE [reply |-> "fresh", queried |-> TRUE, stats |-> Aggregate(u)]

\* what the call leaves behind: the cache, and the schema after the first
\* connection
analytics_effect(u, days, fails) ==
    LET key == cache_key(u, days)
        answer == analytics_answer(u, days, fails)
        entry == [key |-> key, timestamp |-> ana_now, stats |-> answer.stats,
                  user_id |-> u, days |-> days]
    IN  /\ analytics_calls < MaxAnalyticsCalls
        /\ analytics_calls' = analytics_calls + 1
        /\ logs_schema' = IF answer.queried
                          THEN CreateIfNotExists(logs_schema, "advanced")
                          ELSE logs_schema
        /\ analytics_cache' = IF answer.reply = "fresh"
                              THEN {e \in analytics_cache : e.key # key} \cup {entry}
                              ELSE analytics_cache

get_user_analytics(u, days, fails) ==
    LET answer == analytics_answer(u, days, fails)
    IN  /\ analytics_effect(u, days, fails)
        /\ last' = [op |-> "get_user_analytics", caller |-> u,
                    reply |-> answer.reply, days |-> days, at |-> ana_now,
                    queried |-> answer.queried, stats |-> answer.stats]
        /\ UNCHANGED <<users, baseVars, auxButLogAna, forwarding_logs, ana_now>>

GetUserAnalytics ==
    \E u \in Payers, days \in AnalyticsDays, fails \in BOOLEAN :
        get_user_analytics(u, days, fails)

\* a minute passes
AnaTick ==
    /\ ana_now < MaxAnaTime
    /\ ana_now' = ana_now + 1
    /\ UNCHANGED <<users, baseVars, auxButAna, analytics_cache, analytics_calls, last>>

----------------------------------------------------------------------------
\* AdvancedCommandHandlers: the access check and the commands behind it

\* the commands that call _check_user_access
CheckedCommands == {"analytics", "myads"}

\* the commands that go straight to their work
UncheckedCommands == {"pausegroup", "referral", "health"}

AdvCommands == CheckedCommands \cup UncheckedCommands

\* the timestamp of the first event: seconds since the epoch
CoolStart == 10

\* seconds the cooldown clock runs past CoolStart
MaxCoolTime == 3

\* the most advanced commands received
MaxCoolCalls == 3

\* _check_user_access.  limited: rate_limit_check, which src/utils.py does
\* not define, refuses the caller; either answer is possible.
check_user_access(u, command, limited) ==
    /\ ~limited
    /\ ~(cool_now - cooldowns[u][command] < 2)

\* one advanced command from user u
advanced_command(u, command, limited) ==
    LET checked == command \in CheckedCommands
        processed == checked => check_user_access(u, command, limited)
    IN  /\ cool_calls < MaxCoolCalls
        /\ cool_calls' = cool_calls + 1
        /\ cooldowns' = IF checked /\ processed
                        THEN [cooldowns EXCEPT ![u][command] = cool_now]
                        ELSE cooldowns
        /\ cool_processed' = IF processed
                             THEN [cool_processed EXCEPT ![u][command] = Some(cool_now)]
                             ELSE cool_processed
        /\ last' = [op |-> "advanced_command", caller |-> u, command |-> command,
                    at |-> cool_now, before |-> cool_processed[u][command],
                    reply |-> IF processed THEN "processed" ELSE "dropped"]
        /\ UNCHANGED <<users, baseVars, auxButCool, cool_now>>

AdvancedCommand ==
    \E u \in Payers, command \in AdvCommands, limited \in BOOLEAN :
        advanced_command(u, command, limited)

\* a second passes
CoolTick ==
    /\ cool_now < CoolStart + MaxCoolTime
    /\ cool_now' = cool_now + 1
    /\ UNCHANGED <<users, baseVars, auxButCool, cooldowns, cool_processed,
                   cool_calls, last>>

----------------------------------------------------------------------------
\* GroupManagementFeatures (advanced_features.py).  No file of src creates
\* the tables paused_groups and group_priority; they are taken as the
\* relations keyed by (user_id, group_id) that the statements assume.

\* a statement that always reports a change
AlwaysChanged(before, after) == TRUE

\* rowcount > 0: did the statement change the table?
Changed(before, after) == before # after

\* INSERT OR IGNORE INTO paused_groups (user_id, group_id)
pause_group(u, g) ==
    LET after == paused_groups \cup {[user_id |-> u, group_id |-> g]}
    IN  /\ paused_groups' = after
        /\ last' = [op |-> "pause_group", caller |-> u, group_id |-> g,
                    before |-> paused_groups,
                    reply |-> Changed(paused_groups, after)]
        /\ UNCHANGED <<users, baseVars, auxButPause, group_priority>>

PauseGroup == \E u \in Payers, g \in GroupIds : pause_group(u, g)

\* DELETE FROM paused_groups WHERE user_id = ? AND group_id = ?
resume_group(u, g) ==
    LET after == paused_groups \ {[user_id |-> u, group_id |-> g]}
    IN  /\ paused_groups' = after
        /\ last' = [op |-> "resume_group", caller |-> u, group_id |-> g,
                    before |-> paused_groups,
                    reply |-> Changed(paused_groups, after)]
        /\ UNCHANGED <<users, baseVars, auxButPause, group_priority>>

ResumeGroup == \E u \in Payers, g \in GroupIds : resume_group(u, g)

\* the priorities a group is given
Priorities == {-1, 1}

\* a priority is stored for the user's group
vip_group(u, g, p) ==
    /\ group_priority' = [group_priority EXCEPT ![u][g] = Some(p)]
    /\ last' = [op |-> "vip_group", caller |-> u, group_id |-> g, reply |-> "ok"]
    /\ UNCHANGED <<users, baseVars, auxButPause, paused_groups>>

VipGroup == \E u \in Payers, g \in GroupIds, p \in Priorities : vip_group(u, g, p)

\* a missing priority taken as the top one
PriorityMissingAsTop(u, g) ==
    IF group_priority[u][g] = None THEN 2
    ELSE CHOOSE p \in group_priority[u][g] : TRUE

\* COALESCE(gp.priority, 0)
PriorityOf(u, g) ==
    IF group_priority[u][g] = None THEN 0
    ELSE CHOOSE p \in group_priority[u][g] : TRUE

\* WHERE ug.user_id = ? AND pg.id IS NULL: the user's rows without a marker
EligibleRows(u) ==
    {x \in user_groups :
        /\ x.user_id = u
        /\ [user_id |-> u, group_id |-> x.group_id] \notin paused_groups}

\* ORDER BY priority DESC, ug.added_at ASC: row x may stand before row y
MayPrecede(x, y) ==
    \/ x.priority > y.priority
    \/ x.priority = y.priority /\ x.added_at <= y.added_at

\* the orders in which the rows can come back: rows that tie stand in any order
Orderings(rows) ==
    {q \in [1..Cardinality(rows) -> rows] :
        /\ \A x \in rows : \E i \in DOMAIN q : q[i] = x
        /\ \A i, j \in DOMAIN q : i < j => MayPrecede(q[i], q[j])}

\* SELECT ug.*, COALESCE(gp.priority, 0) as priority: the rows selected
ListedRows(u) ==
    {[id |-> x.id, user_id |-> x.user_id, group_id |-> x.group_id,
      added_at |-> x.added_at, priority |-> PriorityOf(u, x.group_id)] :
         x \in EligibleRows(u)}

\* get_priority_groups, the rows coming back in the order q
get_priority_groups(u, q) ==
    /\ last' = [op |-> "get_priority_groups", caller |-> u, reply |-> q]
    /\ UNCHANGED <<users, baseVars, auxVars>>

GetPriorityGroups ==
    \E u \in Payers : \E q \in Orderings(ListedRows(u)) : get_priority_groups(u, q)

----------------------------------------------------------------------------
\* SessionHealthMonitor.check (advanced_features.py)

\* how user_client.get_me() under asyncio.wait_for(timeout=10.0) ends: an
\* account, nothing, no answer within 10 seconds, FloodWait, another exception
ProbeOutcomes == {"account", "none", "timeout", "flood_wait", "error"}

\* stats24h.total_forwards > 20 and stats24h.success_rate < 40, the rate being
\* the quotient num / den
LowSuccessRate(stats) ==
    /\ stats.total_forwards > 20
    /\ stats.success_rate[1] < 40 * stats.success_rate[2]

\* SessionHealth(is_healthy=True, issues=[], warnings=[])
NewHealth == [is_healthy |-> TRUE, issues |-> <<>>, warnings |-> <<>>]

\* the body of the try block for a probe that returned
health_after_probe(probe, stats, flood_attr) ==
    LET h1 == IF probe = "none"
              THEN [NewHealth EXCEPT !.is_healthy = FALSE,
                                     !.issues = <<"Cannot verify account">>]
              ELSE NewHealth
        h2 == IF LowSuccessRate(stats)
              THEN [h1 EXCEPT !.warnings = Append(@, "Low success rate")]
              ELSE h1
    IN  IF flood_attr
        THEN [h2 EXCEPT !.warnings = Append(@, "Recent flood waits detected")]
        ELSE h2

\* the except clauses for a probe that did not return.  The FloodWait clause
\* formats e.x.value, while utils.py and advanced_handlers.py read the wait
\* as e.value; has_x_value says whether the exception carries x.value.  If it
\* does not, the AttributeError leaves the clause and check with it.
health_after_exception(probe, has_x_value) ==
    CASE probe = "flood_wait" ->
             [NewHealth EXCEPT !.warnings = <<"Flood protection">>]
      [] probe = "timeout" ->
             [NewHealth EXCEPT !.issues = <<"Session timeout">>]
      [] probe = "error" ->
             [NewHealth EXCEPT !.issues = <<"Health check failed">>,
                               !.is_healthy = FALSE]

\* check(user_id, user_client)
check(u, probe, fails, flood_attr, has_x_value) ==
    IF probe \in {"account", "none"}
    THEN /\ analytics_effect(u, 1, fails)
         /\ last' = [op |-> "check", caller |-> u, reply |-> "returned",
                     probe |-> probe,
                     health |-> health_after_probe(
                                    probe, analytics_answer(u, 1, fails).stats,
                                    flood_attr)]
         /\ UNCHANGED <<users, baseVars, auxButLogAna, forwarding_logs, ana_now>>
    ELSE /\ last' = IF probe = "flood_wait" /\ ~has_x_value
                    THEN [op |-> "check", caller |-> u, reply |-> "raised",
                          probe |-> probe, health |-> NewHealth]
                    ELSE [op |-> "check", caller |-> u, reply |-> "returned",
                          probe |-> probe,
                          health |-> health_after_exception(probe, has_x_value)]
         /\ UNCHANGED <<users, baseVars, auxVars>>

Check ==
    \E u \in Payers, probe \in ProbeOutcomes,
       fails, flood_attr, has_x_value \in BOOLEAN :
        check(u, probe, fails, flood_attr, has_x_value)

----------------------------------------------------------------------------
\* utils.check_channel_membership

\* max_retries = 2
MAX_RETRIES == 2

\* the get_chat_member calls whose answers are laid out in advance
ScriptLen == 3

\* what one get_chat_member call does: it returns a member with a status, or
\* raises one of the errors the function names, FloodWait, or something else
LookupAnswers ==
    VALID_STATUSES \cup {"left", "restricted"} \cup LookupErrors
        \cup {"FloodWait", "Exception"}

AnswerScripts == [1..ScriptLen -> LookupAnswers]

\* the platform answers every lookup with a plain member status
NoAnswers == [i \in 1..ScriptLen |-> "member"]

\* running out of attempts counts as membership
ExhaustedPasses == TRUE

\* the return after the loop
Exhausted == FALSE

\* the loop from attempt on: the value returned and the lookups made.
\* FloodWait sleeps e.value seconds and continues; another exception sleeps a
\* second and continues, or on the last attempt lets the loop end.
RECURSIVE membership_loop(_, _)
membership_loop(answers, attempt) ==
    IF attempt >= MAX_RETRIES THEN [result |-> Exhausted, lookups |-> attempt]
    ELSE LET answer == answers[attempt + 1]
         IN  IF answer \in {"FloodWait", "Exception"}
             THEN membership_loop(answers, attempt + 1)
             ELSE [result |-> answer \in VALID_STATUSES, lookups |-> attempt + 1]

check_channel_membership(answers) == membership_loop(answers, 0)

CheckChannelMembership ==
    /\ last' = [op |-> "check_channel_membership", caller |-> BOT_ID,
                reply |-> check_channel_membership(lookup_answers).result,
                lookups |-> check_channel_membership(lookup_answers).lookups]
    /\ UNCHANGED <<users, baseVars, auxVars>>

\* the state after construction, with table users and the inputs as given
InitAll(users0, rows0, counts0, dialogs0, answers0) ==
    /\ ads = {}
    /\ ad_seq = 0
    /\ last_saved = [u \in UserIds |-> 0]
    /\ payments = <<>>
    /\ users = users0
    /\ owner_ads = <<>>
    /\ owner_state = {}
    /\ flood_protection = [u \in UserIds \cup {BOT_ID} |-> 0]
    /\ now = 0
    /\ force_join_pending_users = {}
    /\ timers = [u \in UserIds \cup {BOT_ID} |-> 0]
    /\ membership = [u \in UserIds \cup {BOT_ID} |-> "left"]
    /\ login_states = {}
    /\ active_sessions = {}
    /\ running = {}
    /\ ad_setup_state = {}
    /\ upgrade_state = {}
    /\ scheduled_campaigns = <<>>
    /\ scheduler_running = FALSE
    /\ scheduler_pending = 0
    /\ scheduler_calls = 0
    /\ worker_tasks = 0
    /\ worker_sleep = 0
    /\ forward_triggers = [i \in 1..MaxCampaigns |-> 0]
    /\ broadcast_calls = {}
    /\ broadcast_confirmed = {}
    /\ lock = {}
    /\ pc = [p \in Threads |-> "idle"]
    /\ txn = [p \in Threads |-> None]
    /\ entry_ads = [p \in Threads |-> {}]
    /\ rotation_rows = rows0
    /\ referrals = {}
    /\ forwarding_logs = <<>>
    /\ logs_schema = "none"
    /\ user_groups = {}
    /\ group_seq = 0
    /\ rate_log = [u \in Payers |-> <<>>]
    /\ rate_history = [u \in Payers |-> <<>>]
    /\ rate_now = 0
    /\ analytics_cache = {}
    /\ analytics_calls = 0
    /\ ana_now = 0
    /\ cooldowns = [u \in Payers |-> [c \in AdvCommands |-> 0]]
    /\ cool_processed = [u \in Payers |-> [c \in AdvCommands |-> None]]
    /\ cool_calls = 0
    /\ cool_now = CoolStart
    /\ paused_groups = {}
    /\ group_priority = [u \in Payers |-> [g \in GroupIds |-> None]]
    /\ stat_counts = counts0
    /\ lookup_answers = answers0
    /\ dialogs = dialogs0
    /\ last = [op |-> "init", caller |-> BOT_ID, reply |-> "none"]

\* success_rate not called yet, an account without dialogs
InitWith(users0, rows0) == InitAll(users0, rows0, NoCounts, <<>>, NoAnswers)

Init == InitWith([x \in {} |-> NewUserRow], <<>>)

\* success_rate is called with any two counts
InitSuccessRate ==
    \E c \in CountPairs : InitAll([x \in {} |-> NewUserRow], <<>>, c, <<>>, NoAnswers)

\* the account has any dialog list
InitDialogs ==
    \E d \in DialogLists : InitAll([x \in {} |-> NewUserRow], <<>>, NoCounts, d, NoAnswers)

\* the platform answers the successive lookups in any way
InitLookups ==
    \E a \in AnswerScripts :
        InitAll([x \in {} |-> NewUserRow], <<>>, NoCounts, <<>>, a)

\* alice has registered and logged in before the worker threads start
InitThreads ==
    InitWith([x \in {SaveUser} |-> [NewUserRow EXCEPT !.session_string = TRUE]], <<>>)

\* the rotation starts from any rows get_user_ads can return for a user
InitRotation ==
    \E rows \in RotationRows : InitWith([x \in {} |-> NewUserRow], rows)

\* every handler of the model, the platform and the clock
Next ==
    \/ SaveAd \/ ToggleAdStatus \/ AdManagementCommand
    \/ CreatePaymentRequest \/ ApprovePayment \/ MainStartCommand \/ Tick
    \/ PaymentsCommand \/ ApproveCommand \/ RejectCommand \/ StatsCommand
    \/ OwneradsCommand \/ HandleOwnerMedia \/ BroadcastCommand \/ HandleCallback
    \/ FloodWindowSlides
    \/ StartCommand \/ GatedCommand \/ CallbackCheckJoin \/ CallbackOnBotMessage
    \/ CallbackOther \/ MessageHandler \/ AutoRemovePendingUser \/ ChannelChange
    \/ LoginCompleted \/ StartAds \/ LogoutCommand
    \/ MainCallbackHandler \/ AdvCallbackHandler
    \/ MainLoginCommand \/ MainSetadCommand \/ MainUpgradeCommand \/ MainInbound
    \/ ScheduleCampaign \/ CallStartScheduler \/ start_scheduler \/ campaign_worker
    \/ MainBroadcastCommand
    \/ SaveAdThread \/ Readers
    \/ GetNextAd
    \/ TrackReferral \/ GetStats
    \/ UpdateUserPremium \/ SetUserActive \/ GetUsers
    \/ init_db \/ migrate_schema \/ AddForwardingLog
    \/ AddGroup \/ RemoveGroup
    \/ DelayCommand
    \/ AntiFloodCheck \/ RateTick
    \/ SuccessRate \/ GetUserGroupsFromAccount
    \/ GetUserAnalytics \/ AnaTick
    \/ AdvancedCommand \/ CoolTick
    \/ PauseGroup \/ ResumeGroup \/ VipGroup \/ GetPriorityGroups
    \/ Check
    \/ CheckChannelMembership

Spec == Init /\ [][Next]_vars

\* only save_ad calls
NextSaveAd == SaveAd

SpecSaveAd == Init /\ [][NextSaveAd]_vars

\* the payment queue
NextPay ==
    \/ MainStartCommand
    \/ CreatePaymentRequest
    \/ ApproveCommand
    \/ RejectCommand
    \/ ApprovePayment

SpecPay == Init /\ [][NextPay]_vars

\* The owner's commands, called by the owner and by others, with storage
\* and replies working: what happens when they fail is explored under
\* SpecPay.
AdminApprove ==
    \E caller \in AdminCallers, arg \in IdArgs(MaxPayments) :
        approve_command(caller, arg, "none")

AdminReject ==
    \E caller \in AdminCallers, arg \in IdArgs(MaxPayments) :
        reject_command(caller, arg, <<>>, "none")

AdminOwnerMedia ==
    \E caller \in AdminCallers, content \in OwnerAdContents :
        handle_owner_media(caller, content, "ok")

NextAdmin ==
    \/ MainStartCommand
    \/ CreatePaymentRequest
    \/ PaymentsCommand
    \/ AdminApprove
    \/ AdminReject
    \/ StatsCommand
    \/ OwneradsCommand
    \/ AdminOwnerMedia
    \/ BroadcastCommand
    \/ HandleCallback
    \/ FloodWindowSlides

SpecAdmin == Init /\ [][NextAdmin]_vars

\* the force-join entry point and the channel
NextJoin ==
    \/ StartCommand
    \/ GatedCommand
    \/ CallbackCheckJoin
    \/ CallbackOnBotMessage
    \/ CallbackOther
    \/ MessageHandler
    \/ AutoRemovePendingUser
    \/ ChannelChange

SpecJoin == Init /\ [][NextJoin]_vars

\* Every scheduled auto_remove_pending_user task wakes up after its sleep;
\* nothing obliges a user to send anything.
FairJoin ==
    SpecJoin /\ \A u \in GateUsers \cup {BOT_ID} : WF_vars(auto_remove_pending_user(u))

\* sessions: registration, login, automation, logout
NextLogout ==
    \/ MainStartCommand
    \/ LoginCompleted
    \/ StartAds
    \/ LogoutCommand

SpecLogout == Init /\ [][NextLogout]_vars

\* the three callback entry points, with the channel and the timeouts
NextCallbacks ==
    \/ CallbackCheckJoin
    \/ CallbackOnBotMessage
    \/ CallbackOther
    \/ MainCallbackHandler
    \/ AdvCallbackHandler
    \/ AutoRemovePendingUser
    \/ ChannelChange

SpecCallbacks == Init /\ [][NextCallbacks]_vars

\* the orchestrator: entering the flows and routing messages
NextFlows ==
    \/ MainStartCommand
    \/ LoginCompleted
    \/ MainLoginCommand
    \/ MainSetadCommand
    \/ MainUpgradeCommand
    \/ OwneradsCommand
    \/ MainInbound

SpecFlows == Init /\ [][NextFlows]_vars

\* every exposed ad operation
NextCampaigns ==
    \/ ScheduleCampaign \/ CallStartScheduler \/ start_scheduler
    \/ campaign_worker \/ Tick

SpecCampaigns == Init /\ [][NextCampaigns]_vars

\* The application calls start_scheduler, the event loop runs every pending
\* call and the worker task for as long as it lives, and the clock advances.
FairCampaigns ==
    /\ SpecCampaigns
    /\ WF_vars(campaign_worker) /\ WF_vars(Tick)
    /\ WF_vars(CallStartScheduler) /\ WF_vars(start_scheduler)

NextBroadcast ==
    \/ OwneradsCommand \/ HandleOwnerMedia \/ BroadcastCommand \/ HandleCallback
    \/ MainBroadcastCommand

SpecBroadcast == Init /\ [][NextBroadcast]_vars

NextThreads == SaveAdThread \/ Readers \/ LogoutCommand

SpecThreads == InitThreads /\ [][NextThreads]_vars

NextRotation == GetNextAd

SpecRotation == InitRotation /\ [][NextRotation]_vars

NextReferrals == TrackReferral \/ GetStats

SpecReferrals == Init /\ [][NextReferrals]_vars

NextUsers ==
    \/ MainStartCommand \/ LoginCompleted \/ LogoutCommand \/ UpdateUserPremium
    \/ SetUserActive \/ GetUsers \/ Tick

SpecUsers == Init /\ [][NextUsers]_vars

NextLogs == init_db \/ migrate_schema \/ AddForwardingLog

SpecLogs == Init /\ [][NextLogs]_vars

NextGroups == AddGroup \/ RemoveGroup

SpecGroups == Init /\ [][NextGroups]_vars

NextDelay == MainStartCommand \/ LoginCompleted \/ UpdateUserPremium \/ DelayCommand

SpecDelay == Init /\ [][NextDelay]_vars

NextRate == AntiFloodCheck \/ RateTick

SpecRate == Init /\ [][NextRate]_vars

\* only success_rate calls, on any counts
SpecSuccessRate == InitSuccessRate /\ [][SuccessRate]_vars

\* only get_user_groups_from_account calls, on any dialog list
SpecDialogs == InitDialogs /\ [][GetUserGroupsFromAccount]_vars

\* a forward that succeeded is logged
LogSuccess == \E u \in Payers : add_forwarding_log(u, "success")

\* the log is written, analytics are asked for, and minutes pass
NextAnalytics == init_db \/ LogSuccess \/ GetUserAnalytics \/ AnaTick

SpecAnalytics == Init /\ [][NextAnalytics]_vars

\* advanced commands arrive while seconds pass
NextCooldown == AdvancedCommand \/ CoolTick

SpecCooldown == Init /\ [][NextCooldown]_vars

\* groups are paused and resumed
NextPause == PauseGroup \/ ResumeGroup

SpecPause == Init /\ [][NextPause]_vars

\* the user whose groups are paused, ranked and listed
ListUser == "alice"

PauseListed == \E g \in GroupIds : pause_group(ListUser, g)

ResumeListed == \E g \in GroupIds : resume_group(ListUser, g)

VipListed == \E g \in GroupIds, p \in Priorities : vip_group(ListUser, g, p)

ListGroups ==
    \E q \in Orderings(ListedRows(ListUser)) : get_priority_groups(ListUser, q)

\* both users add groups; one user's groups are paused, resumed, given
\* priorities and listed
NextPriority ==
    \/ AddGroup \/ PauseListed \/ ResumeListed \/ VipListed \/ ListGroups \/ Tick

SpecPriority == Init /\ [][NextPriority]_vars

\* sessions are checked while minutes pass
NextHealth == Check \/ AnaTick

SpecHealth == Init /\ [][NextHealth]_vars

\* only check_channel_membership calls, on any answers of the platform
SpecLookups == InitLookups /\ [][CheckChannelMembership]_vars

NextAds == SaveAd \/ ToggleAdStatus \/ AdManagementCommand

SpecAds == Init /\ [][NextAds]_vars

----------------------------------------------------------------------------
(* C1: after any sequence of save_ad calls, every user that saved an ad     *)
(* has exactly one active ad, and it is the ad inserted by that user's      *)
(* most recent save_ad call; a user that never saved has no ad at all.      *)
C1_ExactlyOneActive ==
    \A u \in UserIds :
        IF last_saved[u] = 0
        THEN {a \in ads : a.user_id = u} = {}
        ELSE /\ Cardinality(ActiveAds(u)) = 1
             /\ \A a \in ActiveAds(u) : a.id = last_saved[u]

\* bob saved twice with a save of alice in between; the table is full
C1_Witness ==
    /\ ad_seq = MaxAds
    /\ Cardinality({a \in ads : a.user_id = "bob"}) >= 2
    /\ Cardinality({a \in ads : a.user_id = "alice"}) >= 1
    /\ last_saved["alice"] > 1
    /\ last_saved["alice"] < last_saved["bob"]

----------------------------------------------------------------------------
(* C2: under save_ad, toggling and deleting, each user has at most one      *)
(* active ad in every reachable state.                                      *)
C2_AtMostOneActive ==
    \A u \in UserIds : Cardinality(ActiveAds(u)) <= 1

----------------------------------------------------------------------------
(* C3: a payment whose status is approved or rejected never changes its     *)
(* status again, whichever of /approve, /reject and approve_payment runs.   *)
C3_DecidedIsFinal ==
    [][\A i \in DOMAIN payments :
          payments[i].status \in {"approved", "rejected"}
              => payments'[i].status = payments[i].status]_vars

(* C4: a newly created payment is pending; after /approve of a pending      *)
(* payment its status is approved, an approval time is stamped on it, and   *)
(* the payer is premium with subscription_expires = now + the plan's        *)
(* duration (30 days for a plan type outside the pricing table).            *)
C4_ApprovalStampsAndGrants ==
    /\ last.op = "create_payment" => payments[last.pid].status = "pending"
    /\ (last.op = "approve" /\ last.reply = "approved") =>
          LET p == payments[last.pid]
          IN  /\ p.status = "approved"
              /\ p.approved_at # None
              /\ p.user_id \in DOMAIN users =>
                    /\ users[p.user_id].is_premium
                    /\ users[p.user_id].subscription_expires
                          = Some(last.at + get_plan_duration(p.plan_type))

(* C5: a run of /approve that reaches the approval either applies both the  *)
(* status update and the premium grant, or applies neither, also when a     *)
(* statement fails part-way.  (A payer without a users row has nothing to   *)
(* be granted.)                                                             *)
C5_ApprovalIsOneUnit ==
    [][(last'.op = "approve" /\ last'.reply \in {"approved", "approval_failed"}) =>
          LET p == payments[last'.pid]
              u == p.user_id
          IN  \/ payments' = payments /\ users' = users
              \/ /\ payments'[last'.pid].status = "approved"
                 /\ u \in DOMAIN users =>
                       /\ users'[u].is_premium
                       /\ users'[u].premium_expires
                             = Some(now + get_plan_duration(p.plan_type))]_vars

(* C6 as claimed: after /reject the status is rejected, the stored reason   *)
(* is the text typed after the id, or "Verification failed" when none was   *)
(* typed, and no users row changed.                                         *)
C6_ReasonIsSuppliedText ==
    [][(last'.op = "reject" /\ last'.applied) =>
          /\ payments'[last'.pid].status = "rejected"
          /\ payments'[last'.pid].rejected_reason =
                Some(IF split(last'.text) = <<>> THEN VERIFICATION_FAILED
                     ELSE last'.text)
          /\ users' = users]_vars

\* the reason each text of the model is expected to be stored as
ExpectedReason(text) ==
    CASE text = <<>>                     -> VERIFICATION_FAILED
      [] text = <<" ">>                  -> VERIFICATION_FAILED
      [] text = <<"a">>                  -> <<"a">>
      [] text = <<"<", "a", ">">>        -> <<"a">>
      [] text = <<"a", " ", " ", "b">>   -> <<"a", " ", "b">>

(* C6 as amended: after /reject the status is rejected, the stored reason   *)
(* is the typed words joined by single spaces with the angle brackets       *)
(* removed, or "Verification failed" when no word was typed, and no users   *)
(* row changed.                                                             *)
C6_ReasonIsSanitizedText ==
    [][(last'.op = "reject" /\ last'.applied) =>
          /\ payments'[last'.pid].status = "rejected"
          /\ payments'[last'.pid].rejected_reason = Some(ExpectedReason(last'.text))
          /\ users' = users]_vars

\* an approved payment of a premium payer was rejected with a bracketed reason
C6_Witness ==
    /\ last.op = "reject"
    /\ last.applied
    /\ last.text = <<"<", "a", ">">>
    /\ payments[last.pid].status = "rejected"
    /\ payments[last.pid].rejected_reason = Some(<<"a">>)
    /\ payments[last.pid].user_id \in DOMAIN users
    /\ users[payments[last.pid].user_id].is_premium

----------------------------------------------------------------------------
\* the operations of the admin surface, as recorded in last.op
AdminOps ==
    {"payments", "approve", "reject", "stats", "ownerads", "broadcast",
     "admin_callback"}

(* C7: whenever /payments, /approve, /reject, /stats, /ownerads, /broadcast *)
(* or the admin callback runs for a caller that is not the owner, the       *)
(* caller is refused, and payments, users, owner ads and the owner-state    *)
(* map are what they were before; a media message of such a caller changes  *)
(* none of them either.                                                     *)
C7_NonOwnerRefused ==
    [][(last'.caller # OWNER_ID /\ last'.op \in AdminOps \cup {"owner_media"}) =>
          /\ last'.op \in AdminOps => last'.reply \in {"owner_only", "unauthorized"}
          /\ UNCHANGED <<payments, users, owner_ads, owner_state>>]_vars

\* alice, a registered payer with a pending payment, sent /approve for it
\* while an owner ad is stored and the owner is about to send another
C7_Witness ==
    /\ last.op = "approve"
    /\ last.caller = "alice"
    /\ last.reply = "owner_only"
    /\ 1 \in DOMAIN payments
    /\ payments[1].status = "pending"
    /\ payments[1].user_id = "alice"
    /\ "alice" \in DOMAIN users
    /\ Len(owner_ads) = 1
    /\ OWNER_ID \in owner_state

----------------------------------------------------------------------------
\* the handlers of the force-join entry point, as recorded in last.op
JoinOps ==
    {"start", "command", "check_join", "back_home", "view_plans",
     "start_login", "show_status", "unknown", "message", "timeout"}

(* C8: a check at which the account is a member passes and leaves it out   *)
(* of the pending set, also when an earlier failed check had put it there;  *)
(* a check at which it is not a member is denied and puts it in the         *)
(* pending set; and nothing but its own failed check ever adds an account   *)
(* to the pending set.                                                      *)
C8_GateTracksPending ==
    [][last'.op \in JoinOps =>
          /\ \A i \in DOMAIN last'.checks :
                LET c == last'.checks[i]
                IN  /\ c.reported = "member" =>
                          c.passed /\ c.user \notin force_join_pending_users'
                    /\ c.reported = "not_member" =>
                          ~c.passed /\ c.user \in force_join_pending_users'
          /\ \A u \in force_join_pending_users' \ force_join_pending_users :
                \E i \in DOMAIN last'.checks :
                    last'.checks[i].user = u /\ ~last'.checks[i].passed]_vars

\* alice was pending, with her timeout still ahead, when she pressed
\* "Check Again" as a member: she passed and left the pending set
C8_Witness ==
    /\ last.op = "check_join"
    /\ last.caller = "alice"
    /\ last.checks[1].was_pending
    /\ last.checks[1].passed
    /\ "alice" \notin force_join_pending_users
    /\ timers["alice"] > 0

(* C9: a check passes exactly when its own lookup reported member,         *)
(* administrator or creator.  A lookup that raised is a denial, the first   *)
(* check after the pending timeout ran out decides like any other, a        *)
(* command is served only behind a passed check, and the timeout itself     *)
(* only removes the account from the pending set.                           *)
C9_PassOnlyOnMemberLookup ==
    [][last'.op \in JoinOps =>
          /\ \A i \in DOMAIN last'.checks :
                LET c == last'.checks[i]
                IN  /\ c.passed => c.reported = "member"
                    /\ c.reported = "error" => ~c.passed
                    /\ (c.after_expiry /\ c.reported # "member") => ~c.passed
          /\ (last'.op \in {"start", "command"} /\ last'.reply \in {"welcome", "served"})
                => last'.checks[1].passed
          /\ last'.op = "timeout" =>
                /\ force_join_pending_users' = force_join_pending_users \ {last'.caller}
                /\ users' = users
                /\ login_states' = login_states]_vars

\* alice's pending timeout ran out, her next command met a lookup that
\* raised, and she was denied and put back in the pending set
C9_Witness ==
    /\ last.op = "command"
    /\ last.caller = "alice"
    /\ last.checks[1].after_expiry
    /\ last.checks[1].reported = "error"
    /\ ~last.checks[1].passed
    /\ last.reply = "join_prompt"
    /\ "alice" \in force_join_pending_users

----------------------------------------------------------------------------
(* C10: once /logout has run to its confirmation, the user has no entry in  *)
(* the active-session registry, the persisted session is cleared and        *)
(* is_active is false, whether the remote termination worked or raised.     *)
C10_LogoutClearsEverything ==
    (last.op = "logout" /\ last.reply = "logged_out") =>
        /\ last.caller \notin active_sessions
        /\ last.caller \in DOMAIN users =>
              /\ ~users[last.caller].session_string
              /\ ~users[last.caller].is_active

----------------------------------------------------------------------------
\* the callback entry points, as recorded in last.op
CallbackOps ==
    {"check_join", "back_home", "view_plans", "start_login", "show_status",
     "unknown", "main_callback", "adv_callback"}

(* C11: every callback query that a callback handler has handled was        *)
(* answered at least once by it, whatever its data and whatever happened    *)
(* on the way.                                                              *)
C11_EveryCallbackAcknowledged ==
    last.op \in CallbackOps => last.acks >= 1

----------------------------------------------------------------------------
(* C12: a message of a user who has a flow state goes to a component that   *)
(* owns one of the user's states, whatever its text, a registered command   *)
(* included.                                                                *)
C12_StateOwnerGetsMessage ==
    (last.op = "inbound" /\ last.had # {}) =>
        last.routed \in {FlowOwner[k] : k \in last.had}

(* C13: after /cancel from a user who had a flow state, the user is in      *)
(* none of the state maps.                                                  *)
C13_CancelClearsState ==
    (last.op = "inbound" /\ last.msg = "/cancel" /\ last.had # {}) =>
        /\ last.caller \notin login_states
        /\ last.caller \notin ad_setup_state
        /\ last.caller \notin owner_state
        /\ last.caller \notin upgrade_state

\* C14: every pending campaign whose scheduled time has passed is eventually
\* marked completed by the running campaign worker.
C14_DueCampaignCompleted ==
    \A i \in 1..MaxCampaigns :
        (/\ scheduler_running
         /\ i <= Len(scheduled_campaigns)
         /\ scheduled_campaigns[i].status = "pending"
         /\ scheduled_campaigns[i].scheduled_time <= now)
        ~> (/\ i <= Len(scheduled_campaigns)
            /\ scheduled_campaigns[i].status = "completed")

\* C15: the owner-ad broadcast of the manager is called only for an ad whose
\* confirmation button was pressed; /broadcast alone never calls it.
C15_BroadcastOnlyAfterConfirm ==
    broadcast_calls \subseteq broadcast_confirmed

\* C16: every write to the store is made by the holder of the store's lock,
\* inside a Persistence Layer operation.
C16_WritesHoldLock ==
    [][(users' # users \/ ads' # ads) => lock = {last'.caller}]_vars

\* C17: concurrent save_ad calls for one user never are inside their
\* deactivate-then-insert block together, no reader sees two active ads of
\* the user, and once no call is under way exactly one ad is active.
ReadOps == {"get_active_ad", "get_user_ads"}

C17_SaveAdCallsDoNotInterleave ==
    /\ Cardinality({p \in Threads : InBlock(p)}) <= 1
    /\ Cardinality(ActiveAds(SaveUser)) <= 1
    /\ last.op \in ReadOps => last.seen <= 1
    /\ ((\A p \in Threads : pc[p] = "idle") /\ last_saved[SaveUser] # 0)
           => Cardinality(ActiveAds(SaveUser)) = 1

\* one call has deactivated an earlier ad and not yet committed while the
\* other call waits for the lock
C17_Witness ==
    /\ pc["t1"] = "in_txn"
    /\ pc["t2"] = "waiting"
    /\ ActiveAds(SaveUser) # {}

\* C18: when the insert of save_ad fails after the deactivation, the table
\* ads is as it was when the call began, while the connection lingers and
\* after it is dropped.
C18_FailedInsertAppliesNothing ==
    (last.op \in {"save_ad_insert", "save_ad_dropped"} /\ last.reply = "raised")
        => ads = entry_ads[last.caller]

\* the failed call had deactivated an active ad, and its connection is gone
C18_Witness ==
    /\ last.op = "save_ad_dropped"
    /\ ActiveAds(SaveUser) # {}

\* C19: every user in the pending set is eventually removed from it, by a
\* successful verification or by the timeout task scheduled with the check
\* that put the user there.
C19_PendingEventuallyRemoved ==
    \A u \in GateUsers \cup {BOT_ID} :
        (u \in force_join_pending_users) ~> (u \notin force_join_pending_users)

\* C20: for a non-empty list of active ads and a draw r below the total
\* weight, get_next_ad returns the first ad whose cumulative weight
\* (success_count + 1 per ad) exceeds r; over the draws 0..total-1 each ad is
\* returned for exactly success_count + 1 of them.
RECURSIVE CumulativeWeight(_, _)
CumulativeWeight(rows, i) ==
    IF i = 0 THEN 0 ELSE rows[i] + 1 + CumulativeWeight(rows, i - 1)

C20_FirstAdExceedingDraw ==
    (last.op = "get_next_ad" /\ rotation_rows # <<>>) =>
        LET n     == Len(rotation_rows)
            total == CumulativeWeight(rotation_rows, n)
        IN  /\ last.reply \in 1..n
            /\ CumulativeWeight(rotation_rows, last.reply) > last.r
            /\ CumulativeWeight(rotation_rows, last.reply - 1) <= last.r
            /\ \A i \in 1..n :
                  Cardinality({r \in 0..(total - 1) :
                                  NextAdIndex(rotation_rows, r) = i})
                      = rotation_rows[i] + 1

\* success counts 0 and 9: the draw 1 is past the first ad's single position
\* and returns the second ad
C20_Witness ==
    /\ last.op = "get_next_ad"
    /\ rotation_rows = <<0, 9>>
    /\ last.r = 1
    /\ last.reply = 2

\* C21 as stated: available_rewards is 7 for exactly 3 referrals, 15 for
\* exactly 5 and 52 for exactly 10.
C21_RewardsAsStated ==
    last.op = "get_stats" =>
        /\ last.reply.total = 3 => last.reply.available_rewards = 7
        /\ last.reply.total = 5 => last.reply.available_rewards = 15
        /\ last.reply.total = 10 => last.reply.available_rewards = 52

\* C21, amended: available_rewards is the sum over every tier met: 7 for
\* exactly 3 referrals, 22 for exactly 5 and 52 for exactly 10.
C21_RewardsAreCumulative ==
    last.op = "get_stats" =>
        /\ last.reply.total = 3 => last.reply.available_rewards = 7
        /\ last.reply.total = 5 => last.reply.available_rewards = 22
        /\ last.reply.total = 10 => last.reply.available_rewards = 52

\* the stats of a referrer with exactly 5 referrals have been computed
C21_Witness ==
    /\ last.op = "get_stats"
    /\ last.reply.total = 5
    /\ Cardinality(referrals) = 5

\* the subscription of u had run out when the last query was made
Expired(u) == \E e \in users[u].subscription_expires : e < last.at

\* C22 as stated: get_free_users returns exactly the users with automation
\* active, no session, and either not premium or a subscription that expired.
C22_FreeUsersHaveNoSession ==
    last.op = "get_free_users" =>
        last.reply = {u \in DOMAIN users :
                        /\ users[u].is_active
                        /\ ~users[u].session_string
                        /\ (~users[u].is_premium \/ Expired(u))}

\* C22, amended: get_free_users returns exactly the users with automation
\* active, a stored session, and either not premium or an expired subscription.
C22_FreeUsersHaveSession ==
    last.op = "get_free_users" =>
        last.reply = {u \in DOMAIN users :
                        /\ users[u].is_active
                        /\ users[u].session_string
                        /\ (~users[u].is_premium \/ Expired(u))}

\* alice is premium with an expired subscription and is returned; bob runs
\* automation without a session and is not
C22_Witness ==
    /\ last.op = "get_free_users"
    /\ DOMAIN users = {"alice", "bob"}
    /\ users["alice"].is_premium /\ Expired("alice")
    /\ "alice" \in last.reply
    /\ users["bob"].is_active /\ ~users["bob"].session_string
    /\ "bob" \notin last.reply

\* C23: every row of forwarding_logs has status success, failed or skipped,
\* whichever component created the table.
C23_LogStatusConstrained ==
    \A i \in DOMAIN forwarding_logs :
        forwarding_logs[i].status \in {"success", "failed", "skipped"}

\* C24: after any sequence of add_group and remove_group calls the table
\* holds at most one row per (user_id, group_id) pair.
C24_OneRowPerUserGroup ==
    \A x, y \in user_groups :
        (x.user_id = y.user_id /\ x.group_id = y.group_id) => x = y

EarlierInWindow(u) ==
    {i \in 1..(Len(rate_history[u]) - 1) : last.at - rate_history[u][i] < 10}

C26_SlidingWindowPerUser ==
    last.op = "antiflood_check" =>
        /\ last.reply <=> Cardinality(EarlierInWindow(last.caller)) < 5
        /\ rate_log[last.caller] # <<>>
        /\ rate_log[last.caller][Len(rate_log[last.caller])] = last.at

\* alice made five requests at time 0 and her sixth, made once the window
\* has passed, is admitted; bob has made a request of his own
C26_Witness ==
    /\ last.op = "antiflood_check"
    /\ last.caller = "alice"
    /\ last.reply
    /\ Len(rate_history["alice"]) = 6
    /\ rate_history["alice"][5] = 0
    /\ last.at >= 10
    /\ rate_history["bob"] # <<>>

\* C27: success_rate(success, total) is 0.0 when total is 0, 30.0 for 3 of 10,
\* 100.0 when success equals a positive total, and lies between 0 and 100
\* whenever 0 <= success <= total.
C27_SuccessRateValues ==
    last.op = "success_rate" =>
        /\ (last.total = 0 => last.rate = 0)
        /\ (last.success = 3 /\ last.total = 10 => last.rate = 300)
        /\ (last.success = last.total /\ last.total > 0 => last.rate = 1000)
        /\ (0 <= last.success /\ last.success <= last.total =>
                0 <= last.rate /\ last.rate <= 1000)

C27_Witness ==
    /\ last.op = "success_rate"
    /\ last.success = 3
    /\ last.total = 10
    /\ last.rate = 300

\* C28: get_user_groups_from_account returns only chats of the dialog list
\* whose type is group or supergroup, and never one with fewer than 5
\* members, a missing member count being taken as 0.
C28_OnlyViableGroups ==
    last.op = "get_user_groups_from_account" =>
        \A i \in 1..Len(last.groups) :
            LET g == last.groups[i]
            IN  /\ g.chat_id \in 1..Len(dialogs)
                /\ dialogs[g.chat_id].type \in {"group", "supergroup"}
                /\ g.type = dialogs[g.chat_id].type
                /\ dialogs[g.chat_id].members_count # None
                /\ \A v \in dialogs[g.chat_id].members_count : v >= 5

C28_Witness ==
    /\ last.op = "get_user_groups_from_account"
    /\ Len(last.groups) = 1
    /\ \E i \in 1..Len(dialogs) :
           dialogs[i].type = "group" /\ dialogs[i].members_count = None
    /\ \E i \in 1..Len(dialogs) :
           dialogs[i].type = "supergroup" /\ dialogs[i].members_count = Some(4)

\* C29: however many times start_scheduler is called, overlapping calls
\* included, at most one campaign worker loop runs.
C29_AtMostOneWorker ==
    /\ worker_tasks <= 1
    /\ (worker_tasks = 1) = scheduler_running

C29_Witness ==
    /\ worker_tasks = 1
    /\ scheduler_pending >= 1
    /\ last.op = "start_scheduler"
    /\ last.reply = "already_running"

\* C30: get_user_analytics called again for the same (user_id, days) within 5
\* minutes of a computed result returns that cached result without querying
\* the store; a call made once the 5 minutes have passed queries the store
\* again and (the query succeeding) replaces the cached entry; entries of
\* different (user_id, days) keys never serve each other.
C30_CachePerKeyForFiveMinutes ==
    [][analytics_calls' = analytics_calls + 1 =>
        LET u == last'.caller
            d == last'.days
            computed == {e \in analytics_cache : e.user_id = u /\ e.days = d}
            young == {e \in computed : ana_now - e.timestamp < 5}
            others == {e \in analytics_cache : ~(e.user_id = u /\ e.days = d)}
        IN  /\ young # {} =>
                /\ ~last'.queried
                /\ \E e \in young : last'.stats = e.stats
                /\ analytics_cache' = analytics_cache
            /\ young = {} =>
                /\ last'.queried
                /\ last'.reply = "fresh" =>
                       {e \in analytics_cache' : e.user_id = u /\ e.days = d}
                           = {[key |-> cache_key(u, d), timestamp |-> ana_now,
                               stats |-> last'.stats, user_id |-> u, days |-> d]}
            /\ {e \in analytics_cache' : ~(e.user_id = u /\ e.days = d)} = others
    ]_vars

C30_Witness ==
    /\ last.op = "get_user_analytics"
    /\ ~last.queried
    /\ last.stats # Aggregate(last.caller)
    /\ last.at >= 4

\* C31: every advanced command enforces a 2-second cooldown per (user,
\* command): an invocation less than 2 seconds after an accepted one of the
\* same command by the same user is not processed.
C31_CooldownOnEveryCommand ==
    (/\ last.op = "advanced_command"
     /\ last.before # None
     /\ \E t \in last.before : last.at - t < 2)
        => last.reply = "dropped"

\* the outcome of the last pause_group or resume_group call, against the
\* paused set it met
C32_ReportsChange ==
    LET pair == [user_id |-> last.caller, group_id |-> last.group_id]
    IN  /\ last.op = "pause_group" =>
            /\ last.reply = (pair \notin last.before)
            /\ paused_groups = last.before \cup {pair}
        /\ last.op = "resume_group" =>
            /\ last.reply = (pair \in last.before)
            /\ paused_groups = last.before \ {pair}

\* C32 as stated: pause_group and resume_group report whether a change
\* occurred, and pause followed by resume of the same group restores the
\* paused set that was there before the pause.
C32_PauseResumeRestores ==
    [][/\ C32_ReportsChange'
       /\ (/\ last.op = "pause_group"
           /\ last'.op = "resume_group"
           /\ last'.caller = last.caller
           /\ last'.group_id = last.group_id)
              => paused_groups' = last.before]_vars

\* C32 amended: pause_group and resume_group report whether a change
\* occurred, and a pause that reported a change, followed by resume of the
\* same group, restores the paused set that was there before the pause.
C32_EffectivePauseResumeRestores ==
    [][/\ C32_ReportsChange'
       /\ (/\ last.op = "pause_group"
           /\ last.reply
           /\ last'.op = "resume_group"
           /\ last'.caller = last.caller
           /\ last'.group_id = last.group_id)
              => paused_groups' = last.before]_vars

C32_Witness ==
    /\ last.op = "resume_group"
    /\ last.reply
    /\ paused_groups # {}
    /\ [user_id |-> last.caller, group_id |-> last.group_id] \notin paused_groups

\* the list the last get_priority_groups call returned: each unpaused
\* user_groups row of the caller once, with its priority or 0, by descending
\* priority and then ascending add-time
C33_ListIsUnpausedByPriority ==
    last.op = "get_priority_groups" =>
        LET q == last.reply
            u == last.caller
            unpaused == {x \in user_groups :
                            /\ x.user_id = u
                            /\ \A m \in paused_groups :
                                   ~(m.user_id = u /\ m.group_id = x.group_id)}
        IN  /\ {q[i].id : i \in DOMAIN q} = {x.id : x \in unpaused}
            /\ Len(q) = Cardinality(unpaused)
            /\ \A i \in DOMAIN q :
                   /\ \E x \in unpaused :
                          /\ x.id = q[i].id
                          /\ x.group_id = q[i].group_id
                          /\ x.added_at = q[i].added_at
                   /\ q[i].priority =
                          IF group_priority[u][q[i].group_id] = {} THEN 0
                          ELSE CHOOSE p \in group_priority[u][q[i].group_id] : TRUE
            /\ \A i, j \in DOMAIN q :
                   i < j => \/ q[i].priority > q[j].priority
                            \/ /\ q[i].priority = q[j].priority
                               /\ q[i].added_at <= q[j].added_at

\* C33: get_priority_groups(user) returns exactly the user's UserGroup rows
\* that are not paused, by descending priority (none counts as 0) and then
\* ascending add-time; pausing and resuming leave the UserGroup rows alone,
\* so a resumed group is listed again.
C33_PriorityGroups ==
    [][/\ C33_ListIsUnpausedByPriority'
       /\ last'.op \in {"pause_group", "resume_group"} => user_groups' = user_groups
      ]_vars

C33_Witness ==
    /\ last.op = "get_priority_groups"
    /\ Len(last.reply) = 2
    /\ last.reply[1].priority = 0
    /\ last.reply[2].priority = -1
    /\ last.reply[1].added_at > last.reply[2].added_at
    /\ \E x \in user_groups : x.user_id # last.caller

\* C34: the session health check never raises: a probe that exceeds 10
\* seconds or fails in any other way is listed under issues of the returned
\* SessionHealth, and a flood-wait signal under its warnings.
C34_CheckNeverRaises ==
    last.op = "check" =>
        /\ last.reply = "returned"
        /\ last.probe = "timeout" =>
               \E i \in DOMAIN last.health.issues :
                   last.health.issues[i] = "Session timeout"
        /\ last.probe = "error" =>
               \E i \in DOMAIN last.health.issues :
                   last.health.issues[i] = "Health check failed"
        /\ last.probe = "flood_wait" =>
               \E i \in DOMAIN last.health.warnings :
                   last.health.warnings[i] = "Flood protection"

\* C37: in every SessionHealth the health check returns, is_healthy = true
\* implies that the issues list is empty.
C37_HealthyHasNoIssues ==
    (last.op = "check" /\ last.reply = "returned" /\ last.health.is_healthy)
        => last.health.issues = <<>>

\* C35: check_channel_membership ends with a boolean after at most 2
\* membership lookups; it returns true only when a lookup reported member,
\* administrator or creator, and false for every failure: not a participant,
\* admin rights missing, invalid or private channel, and a rate-limit signal
\* or an unexpected error on every attempt.
C35_BooleanAfterTwoLookups ==
    last.op = "check_channel_membership" =>
        LET n == last.lookups
            failures == {"UserNotParticipant", "ChatAdminRequired", "PeerIdInvalid",
                         "UsernameNotOccupied", "ChannelPrivate"}
        IN  /\ last.reply \in BOOLEAN
            /\ n \in 1..2
            /\ last.reply =>
                   lookup_answers[n] \in {"member", "administrator", "creator"}
            /\ lookup_answers[n] \in failures => ~last.reply
            /\ (\A i \in 1..2 : lookup_answers[i] \in {"FloodWait", "Exception"})
                   => ~last.reply
            /\ \A i \in 1..(n - 1) : lookup_answers[i] \in {"FloodWait", "Exception"}

C35_Witness ==
    /\ last.op = "check_channel_membership"
    /\ lookup_answers[1] = "FloodWait"
    /\ lookup_answers[2] = "Exception"
    /\ lookup_answers[3] = "member"
    /\ last.reply = FALSE
    /\ last.lookups = 2

\* C36: a user put into the pending set by a failed check stays there until a
\* check of theirs passes or the timeout has run since that check: a task
\* scheduled by an earlier failed check never removes them before.  Tasks
\* sleep equally long, so the one that wakes is the oldest; it is an earlier
\* one whenever more tasks are outstanding than the latest check scheduled.
C36_EarlierTimerLeavesPending ==
    [][(/\ last'.op = "timeout"
        /\ last.op \in {"start", "command"}
        /\ last.caller = last'.caller
        /\ last.reply \in {"join_prompt", "none"}
        /\ last.caller \in force_join_pending_users
        /\ timers[last.caller] > (IF last.reply = "join_prompt" THEN 1 ELSE 0))
           => last.caller \in force_join_pending_users'
      ]_vars

C39_StoredDelayWithinCurrentTier ==
    \A u \in DOMAIN users :
        DelayAllowed(users[u].is_premium, users[u].delay_seconds)

\* C40: a user gets a login state only in the handling of an event in which
\* force_join_check ran for that user and passed.
C40_LoginStateOnlyAfterPassedCheck ==
    [][\A u \in GateUsers :
          (u \in login_states' /\ u \notin login_states)
             => \E i \in DOMAIN last'.checks :
                    /\ last'.checks[i].user = u
                    /\ last'.checks[i].passed
      ]_vars
====
